---- MODULE Spec2Model ----
(***************************************************************************)
(* renderFS: the pre-render variable-presence validator.                   *)
(*                                                                         *)
(* Strings are sequences of one-character strings; a Go byte index i       *)
(* (0-based) is the position i+1 here.  Context values are tagged records: *)
(*   [kind |-> "map", keyKind, entries]   map / pongo2.Context             *)
(*   [kind |-> "slice", items]            slice or array                   *)
(*   [kind |-> "string", s]               text                             *)
(*   [kind |-> "int", v]  [kind |-> "bool", v]  scalars                    *)
(*   [kind |-> "ptr", elem]               non-nil pointer / *pongo2.Value  *)
(*   [kind |-> "nil"]                     nil interface or nil pointer     *)
(***************************************************************************)
EXTENDS Integers, Sequences, FiniteSets, TLC

VARIABLES
    tpl,        \* ensureVariablesPresent: the template text of the call
    ctx,        \* ensureVariablesPresent: the caller's context
    ctxBefore,  \* the caller's context as it was when the latest call began
    blocks,     \* per block, what extractVariablesFromExpression returned
    out,        \* collectVariableCandidates: the slice it returned
    result,     \* outcome of the latest ensureVariablesPresent call
    prevResult, \* outcome of the call before it
    calls,      \* number of ensureVariablesPresent calls made so far
    path,       \* parsePath: the argument
    parsed,     \* parsePath: what it returned
    templateCache, \* the sync.Map: template text -> compiled template handle
    proc,       \* per goroutine, its renderTemplateString call and position
    compiles,   \* per template text, the pongo2.FromString calls made
    stores,     \* per template text, the templateCache.Store calls made
    renders,    \* number of renderTemplateString calls begun
    source,     \* Copy: the source filesystem
    opts,       \* Copy: the Options
    dest,       \* Copy: the MemoryWriter it writes to
    destBefore, \* the MemoryWriter as it was when Copy was called
    copy        \* Copy: position in the walk, matcher, error, Writer calls made

renderVars == <<templateCache, proc, compiles, stores, renders>>

validateVars ==
    <<tpl, ctx, ctxBefore, blocks, out, result, prevResult, calls, path, parsed>>

copyVars == <<source, opts, dest, destBefore, copy>>

vars == <<validateVars, renderVars, copyVars>>

\* no renderTemplateString call has been made
RenderIdle ==
    /\ templateCache = <<>>
    /\ proc = <<>>
    /\ compiles = <<>>
    /\ stores = <<>>
    /\ renders = 0

\* no Copy call has been made
CopyIdle ==
    /\ source = <<>>
    /\ opts = <<>>
    /\ dest = <<>>
    /\ destBefore = <<>>
    /\ copy = <<>>

(***************************************************************************)
(* Characters and the strings package                                      *)
(***************************************************************************)
UpperLetters ==
    <<"A","B","C","D","E","F","G","H","I","J","K","L","M",
      "N","O","P","Q","R","S","T","U","V","W","X","Y","Z">>

LowerLetters ==
    <<"a","b","c","d","e","f","g","h","i","j","k","l","m",
      "n","o","p","q","r","s","t","u","v","w","x","y","z">>

DigitChars == <<"0","1","2","3","4","5","6","7","8","9">>

Range(s) == {s[i] : i \in DOMAIN s}

isWhitespace(b) == b \in {" ", "\n", "\r", "\t"}

isDigit(b) == b \in Range(DigitChars)

isIdentifierStart(b) ==
    b \in Range(LowerLetters) \cup Range(UpperLetters) \cup {"_"}

isIdentifierPart(b) == isIdentifierStart(b) \/ isDigit(b)

ToLowerChar(c) ==
    IF \E i \in DOMAIN UpperLetters : UpperLetters[i] = c
    THEN LowerLetters[CHOOSE i \in DOMAIN UpperLetters : UpperLetters[i] = c]
    ELSE c

ToLower(s) == [i \in DOMAIN s |-> ToLowerChar(s[i])]

ToUpperChar(c) ==
    IF \E i \in DOMAIN LowerLetters : LowerLetters[i] = c
    THEN UpperLetters[CHOOSE i \in DOMAIN LowerLetters : LowerLetters[i] = c]
    ELSE c

HasPrefix(s, p) == Len(s) >= Len(p) /\ SubSeq(s, 1, Len(p)) = p

\* s[from:] with a 1-based first position
Drop(s, from) == SubSeq(s, from, Len(s))

RECURSIVE TrimLeftSet(_, _)
TrimLeftSet(s, cutset) ==
    IF s # <<>> /\ s[1] \in cutset THEN TrimLeftSet(Tail(s), cutset) ELSE s

RECURSIVE TrimRightSet(_, _)
TrimRightSet(s, cutset) ==
    IF s # <<>> /\ s[Len(s)] \in cutset
    THEN TrimRightSet(SubSeq(s, 1, Len(s) - 1), cutset)
    ELSE s

SpaceChars == {" ", "\n", "\r", "\t"}

TrimSpace(s) == TrimRightSet(TrimLeftSet(s, SpaceChars), SpaceChars)

TrimLeftBlank(s) == TrimLeftSet(s, {" "})

RECURSIVE Concat(_)
Concat(ss) == IF ss = <<>> THEN <<>> ELSE Head(ss) \o Concat(Tail(ss))

\* strings.ReplaceAll(s, old, new) for a non-empty old
RECURSIVE ReplaceAll(_, _, _)
ReplaceAll(s, old, new) ==
    IF s = <<>> THEN <<>>
    ELSE IF HasPrefix(s, old)
         THEN new \o ReplaceAll(Drop(s, Len(old) + 1), old, new)
         ELSE <<s[1]>> \o ReplaceAll(Tail(s), old, new)

(***************************************************************************)
(* Paths: the strings and path packages                                    *)
(***************************************************************************)
\* the printable characters in byte order (the backquote left out)
Ascii ==
    <<
      " ", "!", "\"", "#", "$", "%", "&", "'", "(", ")", "*", "+",
      ",", "-", ".", "/", "0", "1", "2", "3", "4", "5", "6", "7",
      "8", "9", ":", ";", "<", "=", ">", "?", "@", "A", "B", "C",
      "D", "E", "F", "G", "H", "I", "J", "K", "L", "M", "N", "O",
      "P", "Q", "R", "S", "T", "U", "V", "W", "X", "Y", "Z", "[",
      "\\", "]", "^", "_", "a", "b", "c", "d", "e", "f", "g",
      "h", "i", "j", "k", "l", "m", "n", "o", "p", "q", "r", "s",
      "t", "u", "v", "w", "x", "y", "z", "{", "|", "}", "~" >>

CharCode(c) == CHOOSE i \in DOMAIN Ascii : Ascii[i] = c

\* a < b as Go compares strings
RECURSIVE StringLess(_, _)
StringLess(a, b) ==
    IF b = <<>> THEN FALSE
    ELSE IF a = <<>> THEN TRUE
    ELSE IF a[1] = b[1] THEN StringLess(Tail(a), Tail(b))
    ELSE CharCode(a[1]) < CharCode(b[1])

HasSuffix(s, suffix) ==
    Len(s) >= Len(suffix) /\ SubSeq(s, Len(s) - Len(suffix) + 1, Len(s)) = suffix

TrimSuffix(s, suffix) ==
    IF HasSuffix(s, suffix) THEN SubSeq(s, 1, Len(s) - Len(suffix)) ELSE s

\* strings.Split(s, sep) for a one-character sep
RECURSIVE SplitFrom(_, _, _)
SplitFrom(s, sep, part) ==
    IF s = <<>> THEN <<part>>
    ELSE IF s[1] = sep THEN <<part>> \o SplitFrom(Tail(s), sep, <<>>)
    ELSE SplitFrom(Tail(s), sep, Append(part, s[1]))

Split(s, sep) == SplitFrom(s, sep, <<>>)

RECURSIVE Join(_, _)
Join(parts, sep) ==
    IF parts = <<>> THEN <<>>
    ELSE IF Len(parts) = 1 THEN parts[1]
    ELSE parts[1] \o <<sep>> \o Join(Tail(parts), sep)

W_dot == <<".">>
W_dotdot == <<".", ".">>

\* path.Clean, its pass over the elements: "" and "." are dropped, ".." takes
\* back the element before it, or stays when there is none and the path is
\* not rooted
RECURSIVE cleanElements(_, _, _)
cleanElements(elements, kept, rooted) ==
    IF elements = <<>> THEN kept
    ELSE LET e == elements[1]
             rest == Tail(elements)
         IN  IF e = <<>> \/ e = W_dot THEN cleanElements(rest, kept, rooted)
             ELSE IF e = W_dotdot
                  THEN IF kept # <<>> /\ kept[Len(kept)] # W_dotdot
                       THEN cleanElements(rest, SubSeq(kept, 1, Len(kept) - 1), rooted)
                       ELSE IF rooted THEN cleanElements(rest, kept, rooted)
                       ELSE cleanElements(rest, Append(kept, e), rooted)
             ELSE cleanElements(rest, Append(kept, e), rooted)

\* path.Clean
Clean(p) ==
    IF p = <<>> THEN W_dot
    ELSE LET rooted == p[1] = "/"
             kept == Join(cleanElements(Split(p, "/"), <<>>, rooted), "/")
         IN  IF rooted THEN <<"/">> \o kept
             ELSE IF kept = <<>> THEN W_dot ELSE kept

\* the position of the last "/" of p, 0 when it has none
RECURSIVE lastSlash(_, _)
lastSlash(p, i) ==
    IF i = 0 THEN 0 ELSE IF p[i] = "/" THEN i ELSE lastSlash(p, i - 1)

\* path.Dir
Dir(p) == Clean(SubSeq(p, 1, lastSlash(p, Len(p))))

\* path.Base for a cleaned relative path
Base(p) == SubSeq(p, lastSlash(p, Len(p)) + 1, Len(p))

(***************************************************************************)
(* Tokenizer                                                               *)
(***************************************************************************)
tokenIdentifier == "identifier"
tokenNumber == "number"
tokenString == "string"
tokenSymbol == "symbol"

token(typ, value) == [typ |-> typ, value |-> value]

\* first position at or after i that is not an identifier part
RECURSIVE identifierEnd(_, _)
identifierEnd(expr, i) ==
    IF i <= Len(expr) /\ isIdentifierPart(expr[i])
    THEN identifierEnd(expr, i + 1) ELSE i

\* first position at or after i that is neither a digit nor '.'
RECURSIVE numberEnd(_, _)
numberEnd(expr, i) ==
    IF i <= Len(expr) /\ (isDigit(expr[i]) \/ expr[i] = ".")
    THEN numberEnd(expr, i + 1) ELSE i

\* position after the quoted run whose body starts at i
RECURSIVE stringEnd(_, _, _)
stringEnd(expr, i, quote) ==
    IF i > Len(expr) THEN i
    ELSE IF expr[i] = "\\" /\ i + 1 <= Len(expr)
         THEN stringEnd(expr, i + 2, quote)
         ELSE IF expr[i] = quote THEN i + 1
              ELSE stringEnd(expr, i + 1, quote)

RECURSIVE tokenizeFrom(_, _)
tokenizeFrom(expr, i) ==
    IF i > Len(expr) THEN <<>>
    ELSE IF isWhitespace(expr[i]) THEN tokenizeFrom(expr, i + 1)
    ELSE IF isIdentifierStart(expr[i])
         THEN LET e == identifierEnd(expr, i + 1)
              IN  <<token(tokenIdentifier, SubSeq(expr, i, e - 1))>>
                  \o tokenizeFrom(expr, e)
    ELSE IF isDigit(expr[i])
         THEN LET e == numberEnd(expr, i + 1)
              IN  <<token(tokenNumber, SubSeq(expr, i, e - 1))>>
                  \o tokenizeFrom(expr, e)
    ELSE IF expr[i] \in {"\"", "'"}
         THEN LET e == stringEnd(expr, i + 1, expr[i])
              IN  <<token(tokenString, SubSeq(expr, i, e - 1))>>
                  \o tokenizeFrom(expr, e)
    ELSE <<token(tokenSymbol, <<expr[i]>>)>> \o tokenizeFrom(expr, i + 1)

tokenize(expr) == tokenizeFrom(expr, 1)

(***************************************************************************)
(* Reference extractor                                                     *)
(***************************************************************************)
skipBaseIdentifiers ==
    { <<"t","r","u","e">>,
      <<"f","a","l","s","e">>,
      <<"n","o","n","e">>,
      <<"n","u","l","l">>,
      <<"n","o","t">>,
      <<"a","n","d">>,
      <<"o","r">>,
      <<"i","n">>,
      <<"a","s">>,
      <<"f","o","r">>,
      <<"e","n","d">>,
      <<"i","f">>,
      <<"e","l","i","f">>,
      <<"e","l","s","e">>,
      <<"s","e","t">>,
      <<"b","l","o","c","k">>,
      <<"s","c","o","p","e","d">>,
      <<"w","i","t","h">>,
      <<"i","m","p","o","r","t">>,
      <<"f","r","o","m">>,
      <<"m","a","c","r","o">>,
      <<"c","a","l","l">>,
      <<"l","o","o","p">>,
      <<"f","o","r","l","o","o","p">>,
      <<"s","u","p","e","r">>,
      <<"s","e","l","f">>,
      <<"p","o","n","g","o","2">> }

bindingKeywords ==
    { <<"f","o","r">>, <<"s","e","t">>, <<"b","l","o","c","k">>, <<"m","a","c","r","o">>, <<"c","a","l","l">>, <<"a","s">> }

\* mutant: the closing-tag prefix rule for the first token is missing
shouldSkipIdentifier_noEnd(tokens, idx) ==
    IF idx = 1 THEN FALSE
    ELSE LET prev == tokens[idx - 1]
         IN  \/ prev.typ = tokenSymbol /\ prev.value \in {<<".">>, <<"|">>, <<":">>}
             \/ prev.typ = tokenIdentifier
                /\ prev.value \in { <<"f","o","r">>, <<"s","e","t">>, <<"b","l","o","c","k">>,
                                    <<"m","a","c","r","o">>, <<"c","a","l","l">>, <<"a","s">> }

\* mutant: the closing-tag prefix rule applies at every token position
shouldSkipIdentifier_anywhere(tokens, idx) ==
    \/ HasPrefix(ToLower(tokens[idx].value), <<"e","n","d">>)
    \/ /\ idx > 1
       /\ LET prev == tokens[idx - 1]
          IN  \/ prev.typ = tokenSymbol /\ prev.value \in {<<".">>, <<"|">>, <<":">>}
              \/ prev.typ = tokenIdentifier
                 /\ prev.value \in { <<"f","o","r">>, <<"s","e","t">>, <<"b","l","o","c","k">>,
                                     <<"m","a","c","r","o">>, <<"c","a","l","l">>, <<"a","s">> }

shouldSkipIdentifier(tokens, idx) ==
    IF idx = 1
    THEN HasPrefix(ToLower(tokens[idx].value), <<"e","n","d">>)
    ELSE LET prev == tokens[idx - 1]
         IN  \/ prev.typ = tokenSymbol /\ prev.value \in {<<".">>, <<"|">>, <<":">>}
             \/ prev.typ = tokenIdentifier /\ prev.value \in bindingKeywords

\* position of the "]" closing the "[" at openIdx, or -1
RECURSIVE closingBracketFrom(_, _, _)
closingBracketFrom(tokens, i, depth) ==
    IF i > Len(tokens) THEN -1
    ELSE IF tokens[i].typ # tokenSymbol THEN closingBracketFrom(tokens, i + 1, depth)
    ELSE IF tokens[i].value = <<"[">> THEN closingBracketFrom(tokens, i + 1, depth + 1)
    ELSE IF tokens[i].value = <<"]">>
         THEN IF depth - 1 = 0 THEN i
              ELSE closingBracketFrom(tokens, i + 1, depth - 1)
    ELSE closingBracketFrom(tokens, i + 1, depth)

findClosingBracket(tokens, openIdx) == closingBracketFrom(tokens, openIdx, 0)

buildBracketNotation(tokens) ==
    Concat([i \in DOMAIN tokens |-> tokens[i].value])

\* the extension loop of extractVariablesFromExpression: from token j on,
\* append ".name" and "[...]" runs to the path; yields the final j and path
RECURSIVE extendPath(_, _, _)
extendPath(tokens, j, pathBuilder) ==
    IF j > Len(tokens) THEN [j |-> j, path |-> pathBuilder]
    ELSE IF tokens[j].typ = tokenSymbol /\ tokens[j].value = <<".">>
            /\ j + 1 <= Len(tokens) /\ tokens[j + 1].typ = tokenIdentifier
         THEN extendPath(tokens, j + 2, pathBuilder \o <<".">> \o tokens[j + 1].value)
    ELSE IF tokens[j].typ = tokenSymbol /\ tokens[j].value = <<"[">>
         THEN LET closing == findClosingBracket(tokens, j)
              IN  IF closing = -1
                  THEN extendPath(tokens, Len(tokens) + 1, pathBuilder)
                  ELSE extendPath(tokens, closing + 1,
                           pathBuilder \o buildBracketNotation(SubSeq(tokens, j, closing)))
    ELSE [j |-> j, path |-> pathBuilder]

variableCandidate(p, b) == [path |-> p, base |-> b]

\* mutant: a chain followed by "(" is kept as a candidate
RECURSIVE extractFrom_keepCalls(_, _)
extractFrom_keepCalls(tokens, i) ==
    IF i > Len(tokens) THEN <<>>
    ELSE IF tokens[i].typ # tokenIdentifier THEN extractFrom_keepCalls(tokens, i + 1)
    ELSE IF shouldSkipIdentifier(tokens, i) THEN extractFrom_keepCalls(tokens, i + 1)
    ELSE LET ext == extendPath(tokens, i + 1, tokens[i].value)
         IN  IF ext.path = <<>>
             THEN extractFrom_keepCalls(tokens, i + 1)
             ELSE <<variableCandidate(ext.path, tokens[i].value)>>
                  \o extractFrom_keepCalls(tokens, i + 1)

RECURSIVE extractFrom(_, _)
extractFrom(tokens, i) ==
    IF i > Len(tokens) THEN <<>>
    ELSE IF tokens[i].typ # tokenIdentifier THEN extractFrom(tokens, i + 1)
    ELSE IF shouldSkipIdentifier(tokens, i) THEN extractFrom(tokens, i + 1)
    ELSE LET ext == extendPath(tokens, i + 1, tokens[i].value)
             isCall == /\ ext.j <= Len(tokens)
                       /\ tokens[ext.j].typ = tokenSymbol
                       /\ tokens[ext.j].value = <<"(">>
         IN  IF isCall \/ ext.path = <<>>
             THEN extractFrom(tokens, i + 1)
             ELSE <<variableCandidate(ext.path, tokens[i].value)>>
                  \o extractFrom(tokens, i + 1)

extractVariablesFromExpression(expr) == extractFrom(tokenize(expr), 1)

(***************************************************************************)
(* Path parser                                                             *)
(***************************************************************************)
indexKindUnknown == "unknown"
indexKindInt == "int"
indexKindString == "string"

pathIndex(kind, intValue, stringValue) ==
    [kind |-> kind, intValue |-> intValue, stringValue |-> stringValue]

pathSegment(name, subscripts) == [name |-> name, subscripts |-> subscripts]

DigitValue(c) == (CHOOSE i \in DOMAIN DigitChars : DigitChars[i] = c) - 1

RECURSIVE DecimalValue(_, _)
DecimalValue(digits, acc) ==
    IF digits = <<>> THEN acc
    ELSE DecimalValue(Tail(digits), acc * 10 + DigitValue(digits[1]))

\* digits <= limit for two digit strings of the same length
RECURSIVE DigitsLeq(_, _)
DigitsLeq(digits, limit) ==
    IF digits = <<>> THEN TRUE
    ELSE IF DigitValue(digits[1]) < DigitValue(limit[1]) THEN TRUE
    ELSE IF DigitValue(digits[1]) > DigitValue(limit[1]) THEN FALSE
    ELSE DigitsLeq(Tail(digits), Tail(limit))

\* math.MaxInt64 and -math.MinInt64 in decimal
MaxIntDigits ==
    <<"9","2","2","3","3","7","2","0","3","6","8","5","4","7","7","5","8","0","7">>
MinIntDigits ==
    <<"9","2","2","3","3","7","2","0","3","6","8","5","4","7","7","5","8","0","8">>

\* the longest digit string whose value is computed exactly; a longer one
\* that still fits an int is represented by ClampedInt, which exceeds every
\* length it is compared with
ExactDigits == <<"9","9","9","9","9","9","9","9","9">>
ClampedInt == DecimalValue(ExactDigits, 0) + 1

\* strconv.Atoi on a 64-bit build: an optional sign, then decimal digits
\* whose value fits an int
Atoi(s) ==
    LET signed == s # <<>> /\ s[1] \in {"+", "-"}
        neg == s # <<>> /\ s[1] = "-"
        digits == IF signed THEN Tail(s) ELSE s
        sig == TrimLeftSet(digits, {"0"})
        limit == IF neg THEN MinIntDigits ELSE MaxIntDigits
        fits == \/ Len(sig) < Len(limit)
                \/ Len(sig) = Len(limit) /\ DigitsLeq(sig, limit)
        abs == IF Len(sig) <= Len(ExactDigits)
               THEN DecimalValue(sig, 0) ELSE ClampedInt
    IN  IF digits = <<>> \/ \E i \in DOMAIN digits : ~isDigit(digits[i])
        THEN [ok |-> FALSE, num |-> 0]
        ELSE IF ~fits THEN [ok |-> FALSE, num |-> 0]
        ELSE [ok |-> TRUE, num |-> IF neg THEN 0 - abs ELSE abs]

\* mutant: a bare subscript is never read as an integer
parseIndex_noInt(content) ==
    IF Len(content) = 0 THEN pathIndex(indexKindUnknown, 0, <<>>)
    ELSE IF content[1] \in {"'", "\""} /\ Len(content) >= 2
            /\ content[Len(content)] = content[1]
         THEN pathIndex(indexKindString, 0,
                  ReplaceAll(SubSeq(content, 2, Len(content) - 1),
                             <<"\\", content[1]>>, <<content[1]>>))
    ELSE pathIndex(indexKindUnknown, 0, <<>>)

parseIndex(content) ==
    IF Len(content) = 0 THEN pathIndex(indexKindUnknown, 0, <<>>)
    ELSE IF content[1] \in {"'", "\""}
         THEN IF Len(content) < 2 THEN pathIndex(indexKindUnknown, 0, <<>>)
              ELSE IF content[Len(content)] # content[1]
                   THEN pathIndex(indexKindUnknown, 0, <<>>)
                   ELSE pathIndex(indexKindString, 0,
                            ReplaceAll(SubSeq(content, 2, Len(content) - 1),
                                       <<"\\", content[1]>>, <<content[1]>>))
    ELSE IF Atoi(content).ok
         THEN pathIndex(indexKindInt, Atoi(content).num, <<>>)
         ELSE pathIndex(indexKindUnknown, 0, <<>>)

\* position of the "]" that brings the depth back to 0, or -1
RECURSIVE closingInStringFrom(_, _, _)
closingInStringFrom(expr, i, depth) ==
    IF i > Len(expr) THEN -1
    ELSE IF expr[i] = "[" THEN closingInStringFrom(expr, i + 1, depth + 1)
    ELSE IF expr[i] = "]"
         THEN IF depth - 1 = 0 THEN i
              ELSE closingInStringFrom(expr, i + 1, depth - 1)
    ELSE closingInStringFrom(expr, i + 1, depth)

findClosingBracketInString(expr) == closingInStringFrom(expr, 1, 0)

\* parsePath's inner loop: the name runs up to the next '.' (consumed, with
\* the blanks after it) or '[' (left in place)
RECURSIVE scanName(_, _)
scanName(expr, nameBuilder) ==
    IF expr = <<>> THEN [name |-> nameBuilder, rest |-> <<>>]
    ELSE IF expr[1] = "."
         THEN [name |-> nameBuilder, rest |-> TrimLeftBlank(Tail(expr))]
    ELSE IF expr[1] = "[" THEN [name |-> nameBuilder, rest |-> expr]
    ELSE scanName(Tail(expr), Append(nameBuilder, expr[1]))

\* parsePath's subscript loop
RECURSIVE scanSubscripts(_, _)
scanSubscripts(expr, subscripts) ==
    IF expr # <<>> /\ expr[1] = "["
    THEN LET end == findClosingBracketInString(expr)
         IN  IF end = -1
             THEN [ok |-> FALSE, subscripts |-> subscripts, rest |-> expr]
             ELSE scanSubscripts(TrimSpace(Drop(expr, end + 1)),
                      Append(subscripts,
                             parseIndex(TrimSpace(SubSeq(expr, 2, end - 1)))))
    ELSE [ok |-> TRUE, subscripts |-> subscripts, rest |-> expr]

\* parsePath's outer loop
RECURSIVE parseSegments(_, _)
parseSegments(expr, segments) ==
    IF expr = <<>> THEN [segments |-> segments, err |-> FALSE]
    ELSE LET nm == scanName(expr, <<>>)
             sb == scanSubscripts(nm.rest, <<>>)
             segs == Append(segments, pathSegment(TrimSpace(nm.name), sb.subscripts))
         IN  IF ~sb.ok THEN [segments |-> <<>>, err |-> TRUE]
             ELSE IF sb.rest # <<>> /\ sb.rest[1] = "."
                  THEN parseSegments(TrimLeftBlank(Tail(sb.rest)), segs)
             ELSE IF sb.rest # <<>>
                  THEN [segments |-> segs, err |-> FALSE]
             ELSE [segments |-> segs, err |-> FALSE]

parsePath(p) == parseSegments(TrimSpace(p), <<>>)

(***************************************************************************)
(* Context resolver                                                        *)
(***************************************************************************)
NilV == [kind |-> "nil"]
IntV(n) == [kind |-> "int", v |-> n]
BoolV(b) == [kind |-> "bool", v |-> b]
StringV(s) == [kind |-> "string", s |-> s]
SliceV(items) == [kind |-> "slice", items |-> items]
PtrV(v) == [kind |-> "ptr", elem |-> v]
MapV(keyKind, entries) == [kind |-> "map", keyKind |-> keyKind, entries |-> entries]
Context(entries) == MapV("string", entries)
\* a struct: its fields by name (exported or not) and the exported methods
\* of its value method set
StructV(fields, methods) == [kind |-> "struct", fields |-> fields, methods |-> methods]
Field(value, exported) == [value |-> value, exported |-> exported]
\* a method: its parameter count, the values it returns, and what calling it
\* writes into the map that is the root of the context
Method(numIn, results, writes) == [numIn |-> numIn, results |-> results, writes |-> writes]
ErrorV == [kind |-> "error"]
NoWrites == [k \in {} |-> NilV]

found(v) == [value |-> v, ok |-> TRUE]
notFound == [value |-> NilV, ok |-> FALSE]

RECURSIVE toReflectValue(_)
toReflectValue(value) ==
    IF value.kind = "nil" THEN notFound
    ELSE IF value.kind = "ptr" THEN toReflectValue(value.elem)
    ELSE found(value)

\* a string can be converted to the key type
buildMapKey(keyKind) == keyKind \in {"string", "interface"}

\* split on "_", upper-case the first letter of every part, join
RECURSIVE exportedFrom(_, _, _)
exportedFrom(name, i, partStart) ==
    IF i > Len(name) THEN <<>>
    ELSE IF name[i] = "_" THEN exportedFrom(name, i + 1, TRUE)
    ELSE <<IF partStart THEN ToUpperChar(name[i]) ELSE name[i]>>
         \o exportedFrom(name, i + 1, FALSE)

toExportedName(name) == exportedFrom(name, 1, TRUE)

\* the struct case of getAttribute: which member answers the name
structMember(sv, name) ==
    LET field == IF name \in DOMAIN sv.fields THEN name ELSE toExportedName(name)
    IN  IF field \in DOMAIN sv.fields /\ sv.fields[field].exported
        THEN [via |-> "field", name |-> field]
        ELSE IF name \in DOMAIN sv.methods
        THEN [via |-> "method", name |-> name]
        ELSE IF toExportedName(name) \in DOMAIN sv.methods
        THEN [via |-> "method", name |-> toExportedName(name)]
        ELSE [via |-> "none", name |-> name]

\* what callNoArgMethod returns
callNoArgMethod(method) ==
    IF method.numIn # 0 THEN notFound
    ELSE IF Len(method.results) = 0 THEN found(NilV)
    ELSE IF Len(method.results) = 1 THEN found(method.results[1])
    ELSE IF Len(method.results) = 2
         THEN IF method.results[2].kind = "error" THEN notFound
              ELSE found(method.results[1])
    ELSE notFound

methodWrites_any(method) == method.writes

\* what callNoArgMethod does besides: method.Call runs the method body, unless
\* the method takes parameters
methodWrites(method) ==
    IF method.numIn # 0 THEN NoWrites ELSE method.writes

getAttribute(current, name) ==
    IF name = <<>> THEN found(current)
    ELSE LET rv == toReflectValue(current)
         IN  IF ~rv.ok THEN notFound
             ELSE IF rv.value.kind = "map"
                  THEN IF ~buildMapKey(rv.value.keyKind) THEN notFound
                       ELSE IF name \in DOMAIN rv.value.entries
                            THEN found(rv.value.entries[name])
                            ELSE notFound
             ELSE IF rv.value.kind = "struct"
                  THEN LET member == structMember(rv.value, name)
                       IN  IF member.via = "field"
                           THEN found(rv.value.fields[member.name].value)
                           ELSE IF member.via = "method"
                           THEN callNoArgMethod(rv.value.methods[member.name])
                           ELSE notFound
             ELSE notFound

\* the writes made by the method that getAttribute(current, name) calls
attributeWrites(current, name) ==
    IF name = <<>> THEN NoWrites
    ELSE LET rv == toReflectValue(current)
         IN  IF ~rv.ok THEN NoWrites
             ELSE IF rv.value.kind # "struct" THEN NoWrites
             ELSE LET member == structMember(rv.value, name)
                  IN  IF member.via = "method"
                      THEN methodWrites(rv.value.methods[member.name])
                      ELSE NoWrites

\* applySubscript once the subscript is a known integer or string
applySubscriptKnown(current, sub) ==
    LET rv == toReflectValue(current)
    IN  IF ~rv.ok THEN notFound
        ELSE IF rv.value.kind = "slice"
             THEN IF sub.kind # indexKindInt THEN notFound
                  ELSE IF sub.intValue < 0 \/ sub.intValue >= Len(rv.value.items)
                       THEN notFound
                       ELSE found(rv.value.items[sub.intValue + 1])
        ELSE IF rv.value.kind = "string"
             THEN IF sub.kind # indexKindInt THEN notFound
                  ELSE IF sub.intValue < 0 \/ sub.intValue >= Len(rv.value.s)
                       THEN notFound
                       ELSE found(StringV(<<rv.value.s[sub.intValue + 1]>>))
        ELSE IF rv.value.kind = "map"
             THEN IF sub.kind # indexKindString THEN notFound
                  ELSE IF ~buildMapKey(rv.value.keyKind) THEN notFound
                  ELSE IF sub.stringValue \in DOMAIN rv.value.entries
                       THEN found(rv.value.entries[sub.stringValue])
                       ELSE notFound
        ELSE notFound

\* mutant: an unknown subscript is applied like a known one
applySubscript_strict(current, sub) == applySubscriptKnown(current, sub)

applySubscript(current, sub) ==
    IF sub.kind = indexKindUnknown THEN found(current)
    ELSE applySubscriptKnown(current, sub)

RECURSIVE applySubscripts(_, _)
applySubscripts(value, subscripts) ==
    IF subscripts = <<>> THEN found(value)
    ELSE LET next == applySubscript(value, subscripts[1])
         IN  IF ~next.ok THEN notFound
             ELSE applySubscripts(next.value, Tail(subscripts))

lookupSegment(current, segment) ==
    LET attr == getAttribute(current, segment.name)
    IN  IF ~attr.ok THEN notFound
        ELSE applySubscripts(attr.value, segment.subscripts)

RECURSIVE resolveSegments(_, _)
resolveSegments(current, segments) ==
    IF segments = <<>> THEN TRUE
    ELSE LET next == lookupSegment(current, segments[1])
         IN  IF ~next.ok THEN FALSE
             ELSE resolveSegments(next.value, Tail(segments))

resolvePath(c, p) ==
    LET pp == parsePath(p)
    IN  IF pp.err THEN FALSE ELSE resolveSegments(c, pp.segments)

\* the root of the context once the methods called along the segments have run
RECURSIVE segmentsEffect(_, _, _)
segmentsEffect(root, current, segments) ==
    IF segments = <<>> THEN root
    ELSE LET written == [root EXCEPT !.entries =
                            attributeWrites(current, segments[1].name) @@ @]
             next == lookupSegment(current, segments[1])
         IN  IF ~next.ok THEN written
             ELSE segmentsEffect(written, next.value, Tail(segments))

\* the context as resolvePath(c, p) leaves it
pathEffect(c, p) ==
    LET pp == parsePath(p)
    IN  IF pp.err THEN c ELSE segmentsEffect(c, c, pp.segments)

(***************************************************************************)
(* Validation entrypoint                                                   *)
(***************************************************************************)
\* first position at or after i holding '{' or '}', or Len(s) + 1
RECURSIVE firstBrace(_, _)
firstBrace(s, i) ==
    IF i > Len(s) THEN i
    ELSE IF s[i] \in {"{", "}"} THEN i ELSE firstBrace(s, i + 1)

\* the capture group of `-?([^{}]+?)-?` over the text between the delimiters
stripTrimMarkers(r) ==
    LET r1 == IF Len(r) >= 2 /\ r[1] = "-" THEN Tail(r) ELSE r
    IN  IF Len(r1) >= 2 /\ r1[Len(r1)] = "-" THEN SubSeq(r1, 1, Len(r1) - 1) ELSE r1

expressionBlockAt_unclosed(s, p) ==
    LET b == firstBrace(s, p + 2)
    IN  IF /\ p + 1 <= Len(s) /\ s[p] = "{" /\ s[p + 1] = "{"
           /\ b >= p + 3
        THEN [ok |-> TRUE, inner |-> stripTrimMarkers(SubSeq(s, p + 2, b - 1)), end |-> b]
        ELSE [ok |-> FALSE, inner |-> <<>>, end |-> p]

\* expressionBlockRegex anchored at position p
expressionBlockAt(s, p) ==
    LET b == firstBrace(s, p + 2)
    IN  IF /\ p + 1 <= Len(s) /\ s[p] = "{" /\ s[p + 1] = "{"
           /\ b + 1 <= Len(s) /\ s[b] = "}" /\ s[b + 1] = "}"
           /\ b >= p + 3
        THEN [ok |-> TRUE, inner |-> stripTrimMarkers(SubSeq(s, p + 2, b - 1)), end |-> b + 1]
        ELSE [ok |-> FALSE, inner |-> <<>>, end |-> p]

\* tagBlockRegex anchored at position p
tagBlockAt(s, p) ==
    LET b == firstBrace(s, p + 2)
    IN  IF /\ p + 1 <= Len(s) /\ s[p] = "{" /\ s[p + 1] = "%"
           /\ b <= Len(s) /\ s[b] = "}" /\ s[b - 1] = "%"
           /\ b >= p + 4
        THEN [ok |-> TRUE, inner |-> stripTrimMarkers(SubSeq(s, p + 2, b - 2)), end |-> b]
        ELSE [ok |-> FALSE, inner |-> <<>>, end |-> p]

\* FindAllStringSubmatch: the capture groups of the leftmost non-overlapping matches
RECURSIVE expressionBlocksFrom(_, _)
expressionBlocksFrom(s, p) ==
    IF p > Len(s) THEN <<>>
    ELSE LET m == expressionBlockAt(s, p)
         IN  IF m.ok THEN <<m.inner>> \o expressionBlocksFrom(s, m.end + 1)
             ELSE expressionBlocksFrom(s, p + 1)

RECURSIVE tagBlocksFrom(_, _)
tagBlocksFrom(s, p) ==
    IF p > Len(s) THEN <<>>
    ELSE LET m == tagBlockAt(s, p)
         IN  IF m.ok THEN <<m.inner>> \o tagBlocksFrom(s, m.end + 1)
             ELSE tagBlocksFrom(s, p + 1)

\* per block (expression blocks first, then tag blocks) the extractor's output
blockCandidates(s) ==
    LET inner == expressionBlocksFrom(s, 1) \o tagBlocksFrom(s, 1)
    IN  [k \in DOMAIN inner |-> extractVariablesFromExpression(TrimSpace(inner[k]))]

\* the values of the dedup map: per path the first candidate carrying it
dedupCandidates(s) ==
    LET all == Concat(blockCandidates(s))
    IN  {all[k] : k \in {n \in DOMAIN all :
                           \A e \in 1..(n - 1) : all[e].path # all[n].path}}

\* the orders in which ranging over a Go map may yield its values
MapOrders(S) ==
    {o \in [1..Cardinality(S) -> S] :
        \A p, q \in 1..Cardinality(S) : p # q => o[p] # o[q]}

resultNone == [status |-> "none", path |-> <<>>]
resultOk == [status |-> "ok", path |-> <<>>]
resultMissing(p) == [status |-> "missing", path |-> p]

\* the loop of ensureVariablesPresent over the collected candidates
RECURSIVE ensureCandidates(_, _)
ensureCandidates(candidates, c) ==
    IF candidates = <<>> THEN resultOk
    ELSE IF candidates[1].base \in skipBaseIdentifiers
         THEN ensureCandidates(Tail(candidates), c)
    ELSE IF ~resolvePath(c, candidates[1].path)
         THEN resultMissing(candidates[1].path)
    ELSE ensureCandidates(Tail(candidates), pathEffect(c, candidates[1].path))

\* the context as that loop leaves it
RECURSIVE contextAfter(_, _)
contextAfter(candidates, c) ==
    IF candidates = <<>> THEN c
    ELSE IF candidates[1].base \in skipBaseIdentifiers
         THEN contextAfter(Tail(candidates), c)
    ELSE IF ~resolvePath(c, candidates[1].path)
         THEN pathEffect(c, candidates[1].path)
    ELSE contextAfter(Tail(candidates), pathEffect(c, candidates[1].path))

(***************************************************************************)
(* Inputs                                                                  *)
(***************************************************************************)
MaxCalls == 2
MaxLen == 2

W_user == <<"u","s","e","r">>
W_name == <<"n","a","m","e">>
W_email == <<"e","m","a","i","l">>
W_items == <<"i","t","e","m","s">>
W_item == <<"i","t","e","m">>
W_list == <<"l","i","s","t">>
W_idx == <<"i","d","x">>
W_s == <<"s">>
W_i == <<"i">>
W_m == <<"m">>
W_key == <<"k","e","y">>
W_x == <<"x">>
W_a == <<"a">>
W_b == <<"b">>
W_endpoint == <<"e","n","d","p","o","i","n","t">>
W_True == <<"T","r","u","e">>
W_NONE == <<"N","O","N","E">>
W_Loop == <<"L","o","o","p">>


Expr(body) == <<"{", "{", " ">> \o body \o <<" ", "}", "}">>
Tag(body) == <<"{", "%", " ">> \o body \o <<" ", "%", "}">>
Dotted(a, b) == a \o <<".">> \o b
Indexed(a, sub) == a \o <<"[">> \o sub \o <<"]">>
Quoted(str) == <<"\"">> \o str \o <<"\"">>

RECURSIVE Itoa(_)
Itoa(n) ==
    IF n < 0 THEN <<"-">> \o Itoa(0 - n)
    ELSE IF n < 10 THEN <<DigitChars[n + 1]>>
    ELSE Itoa(n \div 10) \o <<DigitChars[(n % 10) + 1]>>

\* a slice of n integers
IntSlice(n) == SliceV([k \in 1..n |-> IntV(k)])

W_endfor == <<"e","n","d","f","o","r">>
W_endif == <<"e","n","d","i","f">>
W_if == <<"i","f">>
W_for == <<"f","o","r">>
W_in == <<"i","n">>

\* {% for item in items %}{{ item }}{% endfor %}
LoopTemplate ==
    Tag(W_for \o <<" ">> \o W_item \o <<" ">> \o W_in \o <<" ">> \o W_items)
    \o Expr(W_item) \o Tag(W_endfor)

DottedBases == {W_user, W_m}
DottedFields == {W_name, W_email}
DottedTemplates == {Expr(Dotted(a, b)) : a \in DottedBases, b \in DottedFields}

RefNames == {W_x, W_key, W_idx}
TwoRefTemplates == {Expr(a) \o Expr(b) : a \in RefNames, b \in RefNames}

DynBases == {W_list, W_s, W_endpoint}
W_loop == <<"l","o","o","p">>
DynIndexes == {W_idx, W_i, W_loop}
DynSubTemplates == {Expr(Indexed(sq, ix)) : sq \in DynBases, ix \in DynIndexes}

\* integer literals around the bounds of the slices, and around the int range
SmallLiterals == {Itoa(k) : k \in (0 - 1)..(MaxLen + 1)}
IntLiterals == SmallLiterals \cup {MaxIntDigits, MinIntDigits, <<"-">> \o MinIntDigits}
IntBases == {W_list, W_endpoint}
IntSubTemplates == {Expr(Indexed(sq, k)) : sq \in IntBases, k \in IntLiterals}

AfterDynTemplates ==
    { Expr(Indexed(Indexed(W_m, W_key), <<"0">>)),
      Expr(Dotted(Indexed(W_m, W_key), W_x)) }

QuotedKeyTemplates ==
    { Expr(Indexed(W_a, Quoted(<<"[">>))),
      Expr(Indexed(W_a, Quoted(<<"x">>))),
      Expr(W_a \o <<"[", "0">>) }

EndTags == {W_endfor, W_endif}
CasedReserved == {W_True, W_NONE, W_Loop}
AloneWords == skipBaseIdentifiers \cup EndTags \cup CasedReserved
AloneTemplates == {Expr(w) : w \in AloneWords} \cup {Tag(w) : w \in AloneWords}
\* {% if w %}: the word at a later token position
LaterTemplate(w) == Tag(W_if \o <<" ">> \o w)
LaterTemplates == {LaterTemplate(w) : w \in AloneWords}

DataTemplates ==
    {LoopTemplate} \cup DottedTemplates \cup TwoRefTemplates \cup DynSubTemplates
    \cup IntSubTemplates \cup AfterDynTemplates \cup QuotedKeyTemplates

KeywordTemplates == AloneTemplates \cup LaterTemplates

\* text without a complete block: no delimiter at all, single braces, an
\* opening delimiter that is never closed, a closing one that was never
\* opened, a comment, a closing delimiter ahead of the opening one
BlockFreeTemplates ==
    { <<>>,
      W_x,
      <<"{", " ">> \o W_x \o <<" ", "}">>,
      <<"{", "{", " ">> \o W_x \o <<" ", "}">>,
      <<"{", " ">> \o W_x \o <<" ", "}", "}">>,
      <<"{", "%", " ">> \o W_x \o <<" ", "}">>,
      <<"{", "#", " ">> \o W_x \o <<" ", "#", "}">>,
      <<"}", "}", " ">> \o W_x \o <<" ", "{", "{">>,
      <<"%", "}", " ">> \o W_x \o <<" ", "{", "%">> }

EmptyEntries == [k \in {} |-> NilV]
Ann == StringV(<<"A", "n", "n">>)

KeywordContexts ==
    { Context(EmptyEntries),
      Context(W_x :> IntV(1) @@ W_True :> BoolV(TRUE)) }

Contexts ==
    { Context(EmptyEntries),
      Context(W_user :> MapV("string", W_name :> Ann)),
      Context(W_user :> MapV("string", W_name :> Ann @@ W_email :> Ann)),
      Context(W_user :> Ann),
      Context(W_m :> MapV("interface", W_name :> Ann)),
      Context(W_items :> IntSlice(3)),
      Context(W_items :> IntSlice(3) @@ W_item :> IntV(1)),
      Context(W_idx :> IntV(5)),
      Context(W_endpoint :> IntSlice(0)),
      Context(W_list :> IntSlice(1) @@ W_loop :> IntV(0)),
      Context(W_x :> IntV(1) @@ W_key :> StringV(W_a)),
      Context(W_s :> NilV @@ W_i :> IntV(0)),
      Context(W_endpoint :> IntSlice(1) @@ W_idx :> IntV(0)),
      Context(W_m :> MapV("string", W_a :> IntSlice(1)) @@ W_key :> StringV(W_a)),
      Context(W_m :> MapV("string", W_a :> MapV("string", W_x :> IntV(1)))
              @@ W_key :> StringV(W_a)),
      Context(W_a :> MapV("string", <<"[">> :> IntV(1) @@ W_x :> IntV(1))),
      Context(W_a :> PtrV(MapV("interface", <<"[">> :> IntSlice(1)))) }
    \cup {Context(W_list :> IntSlice(n)) : n \in 0..MaxLen}
    \cup {Context(W_list :> IntSlice(n) @@ W_idx :> IntV(5)) : n \in 0..MaxLen}

\* records with fields and accessors, reached through `list[0].<name>`
W_Name == <<"N","a","m","e">>
W_secret == <<"s","e","c","r","e","t">>
W_full_name == <<"f","u","l","l","_","n","a","m","e">>
W_FullName == <<"F","u","l","l","N","a","m","e">>
W_touch == <<"t","o","u","c","h">>
W_Touch == <<"T","o","u","c","h">>
W_greet == <<"g","r","e","e","t">>
W_Greet == <<"G","r","e","e","t">>
W_fail == <<"f","a","i","l">>
W_Fail == <<"F","a","i","l">>
W_seen == <<"s","e","e","n">>

MemberNames == {W_name, W_secret, W_full_name, W_touch, W_greet, W_fail, W_email}
StructTemplates == {Expr(Dotted(Indexed(W_list, <<"0">>), n)) : n \in MemberNames}

UserFields == W_Name :> Field(Ann, TRUE) @@ W_secret :> Field(Ann, FALSE)
MarksSeen == W_seen :> BoolV(TRUE)

\* its only accessor that writes takes a parameter
QuietUser ==
    StructV(UserFields,
            W_FullName :> Method(0, <<Ann>>, NoWrites)
            @@ W_Greet :> Method(1, <<Ann>>, MarksSeen))

\* Touch and Fail mark the context when called; Fail then reports an error
BusyUser ==
    StructV(UserFields,
            W_FullName :> Method(0, <<Ann>>, NoWrites)
            @@ W_Touch :> Method(0, <<Ann>>, MarksSeen)
            @@ W_Fail :> Method(0, <<NilV, ErrorV>>, MarksSeen))

StructContexts ==
    { Context(W_list :> SliceV(<<QuietUser>>)),
      Context(W_list :> SliceV(<<PtrV(BusyUser)>>)) }

\* the calls made: every data template against every context, every keyword
\* template against a context without and with keyword-like keys
\* chains followed by "(": a name, a dotted chain, a chain through literal
\* and dynamic subscripts, each with the base it starts from
W_f == <<"f">>

CallChains ==
    { [text |-> W_f, base |-> W_f],
      [text |-> Dotted(W_a, W_f), base |-> W_a],
      [text |-> Dotted(Indexed(W_a, <<"0">>), W_f), base |-> W_a],
      [text |-> Indexed(W_a, Quoted(W_b)), base |-> W_a],
      [text |-> Indexed(W_m, W_key), base |-> W_m] }

\* {{ chain(x) }}, with or without white space ahead of the parenthesis
CallTemplate(chain, gap) == Expr(chain \o gap \o <<"(">> \o W_x \o <<")">>)

CallGaps == {<<>>, <<" ">>}

CallTemplates == {CallTemplate(ch.text, gap) : ch \in CallChains, gap \in CallGaps}

\* words that start with "end" in some letter case
W_End == <<"E","n","d">>
W_ENDx == <<"E","N","D","x">>
EndWords == {W_endpoint, W_endif, W_End, W_ENDx}

\* {{ x + w }}: the word after an operator
SumTemplate(w) == Expr(W_x \o <<" ", "+", " ">> \o w)

EndTemplates ==
    UNION {{Expr(w), Tag(w), LaterTemplate(w), SumTemplate(w)} : w \in EndWords}

Inputs ==
    (DataTemplates \X Contexts)
    \cup ((KeywordTemplates \cup BlockFreeTemplates \cup CallTemplates \cup EndTemplates)
          \X KeywordContexts)
    \cup (StructTemplates \X StructContexts)

(***************************************************************************)
(* ensureVariablesPresent as a state machine                               *)
(***************************************************************************)
\* collectVariableCandidates: the slices it may return
collectVariableCandidates(t) == MapOrders(dedupCandidates(t))

parsedNone == [called |-> FALSE, segments |-> <<>>, err |-> FALSE]

InitValidate ==
    /\ \E input \in Inputs : tpl = input[1] /\ ctx = input[2] /\ ctxBefore = input[2]
    /\ blocks = <<>>
    /\ out = <<>>
    /\ result = resultNone
    /\ prevResult = resultNone
    /\ calls = 0
    /\ path = <<>>
    /\ parsed = parsedNone
    /\ RenderIdle
    /\ CopyIdle

\* one call ensureVariablesPresent(tpl, ctx)
Validate ==
    /\ calls < MaxCalls
    /\ \E candidates \in collectVariableCandidates(tpl) :
          /\ out' = candidates
          /\ result' = ensureCandidates(candidates, ctx)
          /\ ctx' = contextAfter(candidates, ctx)
    /\ ctxBefore' = ctx
    /\ blocks' = blockCandidates(tpl)
    /\ prevResult' = result
    /\ calls' = calls + 1
    /\ UNCHANGED <<tpl, path, parsed, renderVars, copyVars>>

NextValidate == Validate

SpecValidate == InitValidate /\ [][NextValidate]_vars


(***************************************************************************)
(* parsePath as a state machine                                            *)
(***************************************************************************)
MaxSegments == 2

intIndex(n) == pathIndex(indexKindInt, n, <<>>)
stringIndex(str) == pathIndex(indexKindString, 0, str)
unknownIndex == pathIndex(indexKindUnknown, 0, <<>>)

\* bracketed subscript runs, each with the subscripts it denotes
SubscriptForms ==
    { [text |-> <<>>, subscripts |-> <<>>],
      [text |-> <<"[", "0", "]">>, subscripts |-> <<intIndex(0)>>],
      [text |-> <<"[">> \o Quoted(W_x) \o <<"]">>, subscripts |-> <<stringIndex(W_x)>>],
      [text |-> <<"[", "0", "]", "[">> \o Quoted(W_x) \o <<"]">>,
       subscripts |-> <<intIndex(0), stringIndex(W_x)>>],
      [text |-> <<"[", "i", "]">>, subscripts |-> <<unknownIndex>>] }

Components == {[name |-> n, sub |-> f] : n \in {W_a, W_b}, f \in SubscriptForms}

ComponentSeqs == UNION {[1..n -> Components] : n \in 1..MaxSegments}

RECURSIVE PathOf(_)
PathOf(cs) ==
    IF Len(cs) = 1 THEN cs[1].name \o cs[1].sub.text
    ELSE cs[1].name \o cs[1].sub.text \o <<".">> \o PathOf(Tail(cs))

MalformedPaths ==
    { <<>>,
      W_a \o <<"[", "0">>,
      Indexed(W_a, Quoted(<<"[">>)),
      Indexed(W_a, Quoted(<<"]">>)),
      W_a \o <<"]">>,
      Indexed(W_a, <<"0">>) \o W_x,
      <<" ">> \o W_a \o <<" ", ".", " ">> \o W_b \o <<" ">>,
      W_a \o <<".", ".">> \o W_b }

Paths == {PathOf(cs) : cs \in ComponentSeqs} \cup MalformedPaths

InitParse ==
    /\ path \in Paths
    /\ parsed = parsedNone
    /\ tpl = <<>>
    /\ ctx = Context(EmptyEntries)
    /\ ctxBefore = Context(EmptyEntries)
    /\ blocks = <<>>
    /\ out = <<>>
    /\ result = resultNone
    /\ prevResult = resultNone
    /\ calls = 0
    /\ RenderIdle
    /\ CopyIdle

\* one call parsePath(path)
ParsePath ==
    /\ ~parsed.called
    /\ parsed' = [called |-> TRUE,
                  segments |-> parsePath(path).segments,
                  err |-> parsePath(path).err]
    /\ UNCHANGED <<tpl, ctx, ctxBefore, blocks, out, result, prevResult, calls,
                    path, renderVars, copyVars>>

NextParse == ParsePath

SpecParse == InitParse /\ [][NextParse]_vars

(***************************************************************************)
(* renderTemplateString and the compiled-template cache, called from       *)
(* several goroutines                                                      *)
(***************************************************************************)
MaxRenders == 3

Goroutines == {"g1", "g2"}

\* `{{ x }}`, plain text, and an expression block that is never closed
RenderTemplates ==
    { Expr(W_x), W_x, <<"{", "{", " ">> \o W_x \o <<" ", "}">> }

RenderContexts ==
    { Context(EmptyEntries), Context(W_x :> IntV(1)) }

\* pongo2.FromString: the engine's lexer rejects a block that is opened and
\* not closed
fromStringFails(t) ==
    \E p \in 1..Len(t) :
        /\ p < Len(t) /\ t[p] = "{" /\ t[p + 1] \in {"{", "%"}
        /\ ~expressionBlockAt(t, p).ok /\ ~tagBlockAt(t, p).ok

\* the *pongo2.Template pointers: every FromString that succeeds allocates one
RECURSIVE sumOver(_, _)
sumOver(f, S) ==
    IF S = {} THEN 0
    ELSE LET e == CHOOSE e \in S : TRUE IN f[e] + sumOver(f, S \ {e})

newTemplate == sumOver(compiles, DOMAIN compiles) + 1

procIdle ==
    [pc |-> "idle", tpl |-> <<>>, ctx |-> Context(EmptyEntries),
     validation |-> resultNone, compiled |-> 0, trace |-> <<>>,
     stable |-> FALSE, err |-> "none"]

InitRender ==
    /\ templateCache = <<>>
    /\ proc = [g \in Goroutines |-> procIdle]
    /\ compiles = [t \in RenderTemplates |-> 0]
    /\ stores = [t \in RenderTemplates |-> 0]
    /\ renders = 0
    /\ tpl = <<>>
    /\ ctx = Context(EmptyEntries)
    /\ ctxBefore = Context(EmptyEntries)
    /\ blocks = <<>>
    /\ out = <<>>
    /\ result = resultNone
    /\ prevResult = resultNone
    /\ calls = 0
    /\ path = <<>>
    /\ parsed = parsedNone
    /\ CopyIdle

\* a goroutine calls renderTemplateString(t, c)
Begin(g) ==
    /\ proc[g].pc \in {"idle", "returned"}
    /\ renders < MaxRenders
    /\ \E t \in RenderTemplates, c \in RenderContexts :
          proc' = [proc EXCEPT ![g] = [procIdle EXCEPT !.pc = "validate",
                                                      !.tpl = t, !.ctx = c]]
    /\ renders' = renders + 1
    /\ UNCHANGED <<templateCache, compiles, stores, validateVars, copyVars>>

\* the getOrCompileTemplate calls for template t that have not returned
inFlight(t) ==
    {g \in Goroutines : proc[g].tpl = t /\ proc[g].pc \in {"load", "compile", "store"}}

EnsureVariablesPresent_skip(g) ==
    /\ proc[g].pc = "validate"
    /\ \E candidates \in collectVariableCandidates(proc[g].tpl) :
          LET res == ensureCandidates(candidates, proc[g].ctx)
          IN  proc' = [proc EXCEPT
                  ![g].validation = res,
                  ![g].ctx = contextAfter(candidates, @),
                  ![g].trace = Append(@, "ensureVariablesPresent"),
                  ![g].pc = "load",
                  ![g].stable = /\ proc[g].tpl \in DOMAIN templateCache
                                /\ \A h \in inFlight(proc[g].tpl) : proc[h].stable]
    /\ UNCHANGED <<templateCache, compiles, stores, renders, validateVars, copyVars>>

\* renderTemplateString, its call of ensureVariablesPresent: an error returns,
\* success enters getOrCompileTemplate
EnsureVariablesPresent(g) ==
    /\ proc[g].pc = "validate"
    /\ \E candidates \in collectVariableCandidates(proc[g].tpl) :
          LET res == ensureCandidates(candidates, proc[g].ctx)
          IN  proc' = [proc EXCEPT
                  ![g].validation = res,
                  ![g].ctx = contextAfter(candidates, @),
                  ![g].trace = Append(@, "ensureVariablesPresent"),
                  ![g].pc = IF res = resultOk THEN "load" ELSE "returned",
                  ![g].err = IF res = resultOk THEN "none" ELSE "missing",
                  ![g].stable = /\ res = resultOk
                                /\ proc[g].tpl \in DOMAIN templateCache
                                /\ \A h \in inFlight(proc[g].tpl) : proc[h].stable]
    /\ UNCHANGED <<templateCache, compiles, stores, renders, validateVars, copyVars>>

cacheLoad_miss(t) == [ok |-> FALSE, value |-> 0]

\* templateCache.Load
cacheLoad(t) ==
    IF t \in DOMAIN templateCache
    THEN [ok |-> TRUE, value |-> templateCache[t]]
    ELSE [ok |-> FALSE, value |-> 0]

\* getOrCompileTemplate, the cache lookup: a hit returns the cached handle
Load(g) ==
    /\ proc[g].pc = "load"
    /\ LET cached == cacheLoad(proc[g].tpl)
       IN  proc' = [proc EXCEPT
               ![g].trace = Append(@, "Load"),
               ![g].compiled = cached.value,
               ![g].pc = IF cached.ok THEN "execute" ELSE "compile"]
    /\ UNCHANGED <<templateCache, compiles, stores, renders, validateVars, copyVars>>

\* getOrCompileTemplate after a miss: pongo2.FromString, an error returns
FromString(g) ==
    /\ proc[g].pc = "compile"
    /\ compiles' = [compiles EXCEPT ![proc[g].tpl] = @ + 1]
    /\ proc' = [proc EXCEPT
           ![g].trace = Append(@, "FromString"),
           ![g].compiled = IF fromStringFails(proc[g].tpl) THEN 0 ELSE newTemplate,
           ![g].pc = IF fromStringFails(proc[g].tpl) THEN "returned" ELSE "store",
           ![g].err = IF fromStringFails(proc[g].tpl) THEN "compile" ELSE "none"]
    /\ UNCHANGED <<templateCache, stores, renders, validateVars, copyVars>>

\* getOrCompileTemplate, templateCache.Store and the return of the handle
Store(g) ==
    /\ proc[g].pc = "store"
    /\ templateCache' = (proc[g].tpl :> proc[g].compiled) @@ templateCache
    /\ stores' = [stores EXCEPT ![proc[g].tpl] = @ + 1]
    /\ proc' = [proc EXCEPT ![g].trace = Append(@, "Store"), ![g].pc = "execute"]
    /\ UNCHANGED <<compiles, renders, validateVars, copyVars>>

\* compiled.Execute(ctx): the engine renders or reports its own error
Execute(g) ==
    /\ proc[g].pc = "execute"
    /\ \E e \in {"none", "execute"} :
          proc' = [proc EXCEPT ![g].trace = Append(@, "Execute"),
                               ![g].pc = "returned", ![g].err = e]
    /\ UNCHANGED <<templateCache, compiles, stores, renders, validateVars, copyVars>>

NextRender ==
    \E g \in Goroutines :
        \/ Begin(g)
        \/ EnsureVariablesPresent(g)
        \/ Load(g)
        \/ FromString(g)
        \/ Store(g)
        \/ Execute(g)

SpecRender == InitRender /\ [][NextRender]_vars

(***************************************************************************)
(* The templating engine, as far as Copy's templates use it: text and      *)
(* `{{ name }}` blocks over a context of strings, numbers and booleans     *)
(***************************************************************************)
\* the engine's autoescape of an expression's output
escape(v) ==
    ReplaceAll(ReplaceAll(ReplaceAll(ReplaceAll(ReplaceAll(v,
        <<"&">>, <<"&", "a", "m", "p", ";">>),
        <<"<">>, <<"&", "l", "t", ";">>),
        <<">">>, <<"&", "g", "t", ";">>),
        <<"\"">>, <<"&", "q", "u", "o", "t", ";">>),
        <<"'">>, <<"&", "#", "3", "9", ";">>)

\* the text an expression block renders to: a name the context does not
\* hold renders to nothing
valueText(c, name) ==
    IF name \notin DOMAIN c.entries THEN <<>>
    ELSE LET v == c.entries[name]
         IN  IF v.kind = "string" THEN escape(v.s)
             ELSE IF v.kind = "int" THEN Itoa(v.v)
             ELSE IF v.kind = "bool"
                  THEN (IF v.v THEN <<"T", "r", "u", "e">> ELSE <<"F", "a", "l", "s", "e">>)
             ELSE <<>>

\* compiled.Execute(ctx)
RECURSIVE executeFrom(_, _, _)
executeFrom(t, p, c) ==
    IF p > Len(t) THEN <<>>
    ELSE LET m == expressionBlockAt(t, p)
         IN  IF m.ok
             THEN valueText(c, TrimSpace(m.inner)) \o executeFrom(t, m.end + 1, c)
             ELSE <<t[p]>> \o executeFrom(t, p + 1, c)

rendered(text) == [err |-> "none", out |-> text]
renderError(e) == [err |-> e, out |-> <<>>]

renderTemplateString_unchecked(t, c) ==
    {IF fromStringFails(t) THEN renderError("compile")
     ELSE rendered(executeFrom(t, 1, c))}

\* renderTemplateString: the results it may return, one per order in which
\* the candidates may be validated
renderTemplateString(t, c) ==
    {IF ensureCandidates(candidates, c) # resultOk THEN renderError("missing")
     ELSE IF fromStringFails(t) THEN renderError("compile")
     ELSE rendered(executeFrom(t, 1, c)) :
        candidates \in collectVariableCandidates(t)}

(***************************************************************************)
(* The ignore matcher                                                      *)
(***************************************************************************)
IgnoreFileName == <<".", "r", "e", "n", "d", "e", "r", "f", "s", "-", "i", "g", "n", "o", "r", "e">>

\* a source entry: a directory, a regular file with its data, or a symlink
\* with its target as data
sourceDir(p, perm) == [path |-> p, kind |-> "dir", data |-> <<>>, perm |-> perm]
sourceFile(p, data, perm) == [path |-> p, kind |-> "file", data |-> data, perm |-> perm]
sourceLink(p, target) == [path |-> p, kind |-> "symlink", data |-> target, perm |-> 511]

\* parseIgnoreFile
RECURSIVE parseIgnoreLines(_)
parseIgnoreLines(lines) ==
    IF lines = <<>> THEN <<>>
    ELSE LET line == TrimSpace(lines[1])
         IN  IF line = <<>> \/ HasPrefix(line, <<"#">>)
             THEN parseIgnoreLines(Tail(lines))
             ELSE <<line>> \o parseIgnoreLines(Tail(lines))

parseIgnoreFile(content) == parseIgnoreLines(Split(content, "\n"))

\* the loop of buildIgnoreMatcher over Options.IgnorePatterns
RECURSIVE nonBlankPatterns(_)
nonBlankPatterns(patterns) ==
    IF patterns = <<>> THEN <<>>
    ELSE IF TrimSpace(patterns[1]) = <<>> THEN nonBlankPatterns(Tail(patterns))
    ELSE <<TrimSpace(patterns[1])>> \o nonBlankPatterns(Tail(patterns))

noMatcher == [nil |-> TRUE, lines |-> <<>>, err |-> "none"]

\* buildIgnoreMatcher: the lines it compiles, no matcher when there are none
buildIgnoreMatcher(src, patterns) ==
    LET explicit == nonBlankPatterns(patterns)
        files == {e \in src.entries : e.path = IgnoreFileName}
    IN  IF explicit = <<>> /\ \E e \in files : e.kind = "dir"
        THEN [nil |-> TRUE, lines |-> <<>>, err |-> "read .renderfs-ignore"]
        ELSE LET lines == IF explicit # <<>> \/ files = {} THEN explicit
                          ELSE parseIgnoreFile((CHOOSE e \in files : TRUE).data)
             IN  IF lines = <<>> THEN noMatcher
                 ELSE [nil |-> FALSE, lines |-> Append(lines, IgnoreFileName),
                       err |-> "none"]

\* the matcher's reading of one line without wildcards: skipped, or a
\* pattern with its negation mark taken off
ignorePattern(line) ==
    LET l1 == TrimRightSet(line, {"\r"})
        l2 == TrimRightSet(TrimLeftSet(l1, {" "}), {" "})
        negate == l2 # <<>> /\ l2[1] = "!"
        l3 == IF negate THEN Tail(l2) ELSE l2
        l4 == IF l3 # <<>> /\ l3[1] \in {"#", "!"} THEN Tail(l3) ELSE l3
    IN  IF HasPrefix(l1, <<"#">>) \/ l2 = <<>>
        THEN [skip |-> TRUE, negate |-> FALSE, text |-> <<>>]
        ELSE [skip |-> FALSE, negate |-> negate, text |-> l4]

\* the pattern's regular expression on path f: the text at the start of f or
\* after a "/" (only at the start when the pattern begins with "/"), up to
\* the end of f or a "/" (or anything when the pattern ends with "/")
patternMatches(text, f) ==
    LET anchored == text # <<>> /\ text[1] = "/"
        body == IF anchored THEN Tail(text) ELSE text
        open == body # <<>> /\ body[Len(body)] = "/"
    IN  \E i \in 0..Len(f) :
            /\ i + Len(body) <= Len(f)
            /\ SubSeq(f, i + 1, i + Len(body)) = body
            /\ IF anchored THEN i = 0 \/ (i = 1 /\ f[1] = "/")
               ELSE i = 0 \/ f[i] = "/"
            /\ \/ open
               \/ i + Len(body) = Len(f)
               \/ f[i + Len(body) + 1] = "/"

\* MatchesPath: the last pattern that matches decides
RECURSIVE matchLines(_, _, _)
matchLines(lines, f, matched) ==
    IF lines = <<>> THEN matched
    ELSE LET ip == ignorePattern(lines[1])
         IN  IF ~ip.skip /\ patternMatches(ip.text, f)
             THEN matchLines(Tail(lines), f, ~ip.negate)
             ELSE matchLines(Tail(lines), f, matched)

MatchesPath(lines, f) == matchLines(lines, f, FALSE)

(***************************************************************************)
(* MemoryWriter                                                            *)
(***************************************************************************)
NoEntries == [k \in {} |-> <<>>]

NewMemoryWriter == [files |-> NoEntries, dirs |-> NoEntries, symlinks |-> NoEntries]

Without(f, k) == [x \in DOMAIN f \ {k} |-> f[x]]

normalizePath(p) ==
    IF p = <<>> \/ p = W_dot THEN W_dot
    ELSE Clean(ReplaceAll(p, <<"\\">>, <<"/">>))

\* the registration of the parent directory by CreateFile and Symlink
withParent(dirs, p) ==
    IF Dir(p) # W_dot /\ Dir(p) \notin DOMAIN dirs
    THEN (Dir(p) :> 493) @@ dirs
    ELSE dirs

MkdirAll(w, path0, perm) ==
    LET p == normalizePath(path0)
    IN  IF p = W_dot THEN w
        ELSE [w EXCEPT !.dirs = (p :> perm) @@ @]

\* CreateFile and the writing of the content into the handle it returns
CreateFile(w, path0, perm, content) ==
    LET p == normalizePath(path0)
    IN  [files |-> (p :> [content |-> content, mode |-> perm]) @@ w.files,
         symlinks |-> Without(w.symlinks, p),
         dirs |-> withParent(w.dirs, p)]

Symlink_keepFile(w, oldname, newname0) ==
    LET p == normalizePath(newname0)
    IN  [symlinks |-> (p :> oldname) @@ w.symlinks,
         files |-> w.files,
         dirs |-> withParent(w.dirs, p)]

Symlink(w, oldname, newname0) ==
    LET p == normalizePath(newname0)
    IN  [symlinks |-> (p :> oldname) @@ w.symlinks,
         files |-> Without(w.files, p),
         dirs |-> withParent(w.dirs, p)]

\* Lstat: what the path is recorded as, directories first
Lstat(w, path0) ==
    LET p == normalizePath(path0)
    IN  IF p = W_dot \/ p \in DOMAIN w.dirs THEN [exists |-> TRUE, isDir |-> TRUE]
        ELSE IF p \in DOMAIN w.files \/ p \in DOMAIN w.symlinks
             THEN [exists |-> TRUE, isDir |-> FALSE]
        ELSE [exists |-> FALSE, isDir |-> FALSE]

(***************************************************************************)
(* Copy                                                                    *)
(***************************************************************************)
Overwrite == 0
Skip == 1
Fail == 2

\* the normalisation of Options.OnConflict
conflictMode(onConflict) ==
    IF onConflict < Overwrite \/ onConflict > Fail THEN Overwrite ELSE onConflict

stripTemplateSuffix(p) ==
    IF HasSuffix(p, <<".", "j", "i", "n", "j", "a">>) THEN TrimSuffix(p, <<".", "j", "i", "n", "j", "a">>)
    ELSE IF HasSuffix(p, <<".", "t", "m", "p", "l">>) THEN TrimSuffix(p, <<".", "t", "m", "p", "l">>)
    ELSE p

relativePath(p, skip, err) == [path |-> p, skip |-> skip, err |-> err]

cleanRelativePath_keepBlank(r, isDir) ==
    IF r.err # "none" THEN relativePath(<<>>, FALSE, r.err)
    ELSE LET clean == Clean(ReplaceAll(TrimSpace(r.out), <<"\\">>, <<"/">>))
         IN  IF HasPrefix(clean, <<".", ".", "/">>) \/ HasPrefix(clean, <<"/">>)
             THEN relativePath(<<>>, FALSE, "escapes destination")
             ELSE relativePath(IF isDir THEN clean ELSE stripTemplateSuffix(clean),
                               FALSE, "none")

\* renderRelativePath on one result of renderTemplateString
cleanRelativePath(r, isDir) ==
    IF r.err # "none" THEN relativePath(<<>>, FALSE, r.err)
    ELSE LET trimmed == TrimSpace(r.out)
             clean == Clean(ReplaceAll(trimmed, <<"\\">>, <<"/">>))
         IN  IF trimmed = <<>> THEN relativePath(<<>>, TRUE, "none")
             ELSE IF clean = W_dot THEN relativePath(<<>>, TRUE, "none")
             ELSE IF HasPrefix(clean, <<".", ".", "/">>) \/ HasPrefix(clean, <<"/">>)
                  THEN relativePath(<<>>, FALSE, "escapes destination")
             ELSE relativePath(IF isDir THEN clean ELSE stripTemplateSuffix(clean),
                               FALSE, "none")

renderRelativePath(rel, isDir, c) ==
    {cleanRelativePath(r, isDir) : r \in renderTemplateString(rel, c)}

handleConflict_proceed(w, relPath, resolution) == [proceed |-> TRUE, err |-> "none"]

\* handleConflict on a Writer that has Lstat
handleConflict(w, relPath, resolution) ==
    LET info == Lstat(w, relPath)
    IN  IF ~info.exists THEN [proceed |-> TRUE, err |-> "none"]
        ELSE IF info.isDir THEN [proceed |-> FALSE, err |-> "is a directory"]
        ELSE IF resolution = Skip THEN [proceed |-> FALSE, err |-> "none"]
        ELSE IF resolution = Fail THEN [proceed |-> FALSE, err |-> "exists"]
        ELSE [proceed |-> TRUE, err |-> "none"]

directoryMode(perm) == IF perm # 0 THEN perm ELSE 493

fileMode_default(perm) == 420

fileMode(perm) == IF perm # 0 THEN perm ELSE 420

isIgnoreFile_never(rel) == FALSE

\* the walk's own test for the ignore file
isIgnoreFile(rel) == rel = IgnoreFileName

\* one Writer call, and the source entry it was made for
writerCall(op, p, src) == [op |-> op, path |-> p, src |-> src]

\* what one run of the walk function leaves behind
walked(w, made, outcome, err, skip) ==
    [dest |-> w, ops |-> made, outcome |-> outcome, err |-> err, skipDir |-> skip,
     path |-> IF made = <<>> THEN <<>> ELSE made[Len(made)].path]

\* the walk function from the conflict check on, for a regular file rendered
\* to the path p
copyFile(e, p, w, c, conflict) ==
    LET hc == handleConflict(w, p, conflict)
        parent == Dir(p)
        w1 == IF parent # W_dot THEN MkdirAll(w, parent, 493) ELSE w
        ops1 == IF parent # W_dot THEN <<writerCall("MkdirAll", parent, e.path)>>
                ELSE <<>>
    IN  IF hc.err # "none"
        THEN {[walked(w, <<>>, "conflict", hc.err, FALSE) EXCEPT !.path = p]}
        ELSE IF ~hc.proceed
        THEN {[walked(w, <<>>, "kept", "none", FALSE) EXCEPT !.path = p]}
        ELSE {IF r.err # "none"
              THEN [walked(w1, ops1, "render file", r.err, FALSE) EXCEPT !.path = p]
              ELSE walked(CreateFile(w1, p, fileMode(e.perm), r.out),
                          Append(ops1, writerCall("CreateFile", p, e.path)),
                          "written", "none", FALSE) :
                 r \in renderTemplateString(e.data, c)}

\* the walk function for the entry e: the ways it may end
walkFunc(e, w, c, conflict, matcher, readLink) ==
    LET isDir == e.kind = "dir"
    IN  IF ~matcher.nil /\ MatchesPath(matcher.lines, e.path)
        THEN {walked(w, <<>>, "ignored", "none", isDir)}
        ELSE IF isIgnoreFile(e.path)
        THEN {walked(w, <<>>, "ignore file", "none", isDir)}
        ELSE UNION {
            IF rp.err # "none" THEN {walked(w, <<>>, "render path", rp.err, FALSE)}
            ELSE IF rp.skip THEN {walked(w, <<>>, "path skipped", "none", isDir)}
            ELSE IF isDir
                 THEN {walked(MkdirAll(w, rp.path, directoryMode(e.perm)),
                              <<writerCall("MkdirAll", rp.path, e.path)>>,
                              "directory", "none", FALSE)}
            ELSE IF e.kind = "symlink"
                 THEN IF ~readLink
                      THEN {walked(w, <<>>, "read symlink", "no symlinks", FALSE)}
                      ELSE {walked(Symlink(w, e.data, rp.path),
                                   <<writerCall("Symlink", rp.path, e.path)>>,
                                   "symlink", "none", FALSE)}
            ELSE copyFile(e, rp.path, w, c, conflict) :
                rp \in renderRelativePath(e.path, isDir, c)}

\* fs.WalkDir visits a directory's entries sorted by name, every directory
\* ahead of its own entries
RECURSIVE ElementsLess(_, _)
ElementsLess(a, b) ==
    IF b = <<>> THEN FALSE
    ELSE IF a = <<>> THEN TRUE
    ELSE IF a[1] = b[1] THEN ElementsLess(Tail(a), Tail(b))
    ELSE StringLess(a[1], b[1])

WalkLess(p, q) == ElementsLess(Split(p, "/"), Split(q, "/"))

RECURSIVE WalkOrder(_)
WalkOrder(entries) ==
    IF entries = {} THEN <<>>
    ELSE LET first == CHOOSE e \in entries :
                          \A f \in entries \ {e} : WalkLess(e.path, f.path)
         IN  <<first>> \o WalkOrder(entries \ {first})

underDir(p, d) == HasPrefix(p, d \o <<"/">>)

\* the entries left to walk once the directory d has been answered with SkipDir
RECURSIVE afterSkipDir(_, _)
afterSkipDir(queue, d) ==
    IF queue = <<>> THEN <<>>
    ELSE IF underDir(queue[1].path, d) THEN afterSkipDir(Tail(queue), d)
    ELSE <<queue[1]>> \o afterSkipDir(Tail(queue), d)

copyReady ==
    [pc |-> "ready", conflict |-> Overwrite, matcher |-> noMatcher, queue |-> <<>>,
     err |-> "none", ops |-> <<>>, visited |-> <<>>]

\* the record kept of one run of the walk function: the entry, how the run
\* ended, the destination path it rendered, the number of Writer calls made
\* before it, and the destination file that was at that path before it
visit(e, r, w, made) ==
    [src |-> e.path, kind |-> e.kind, data |-> e.data, outcome |-> r.outcome,
     path |-> r.path, opsBefore |-> Len(made),
     before |-> IF r.path \in DOMAIN w.files THEN <<w.files[r.path]>> ELSE <<>>]

(***************************************************************************)
(* Copy: the calls made                                                    *)
(***************************************************************************)
W_d == <<"d">>
W_l == <<"l">>
W_e == <<"e">>
W_n == <<"n">>
W_up == <<"u", "p">>
W_sl == <<"s", "l">>
P_da == <<"d", "/", "a">>
P_dIgnore == W_d \o <<"/">> \o IgnoreFileName
P_aJinja == <<"a", ".", "j", "i", "n", "j", "a">>
P_aTmpl == <<"a", ".", "t", "m", "p", "l">>
PlainText == <<"h", "i">>
OldText == <<"o", "l", "d">>

\* name is a plain word; e is empty, s is blank, up and sl hold the path
\* elements ".." and "/"
CopyContext ==
    Context((W_name :> StringV(W_n)) @@ (W_e :> StringV(<<>>))
            @@ (W_s :> StringV(<<" ">>)) @@ (W_up :> StringV(W_dotdot))
            @@ (W_sl :> StringV(<<"/">>)))

\* contents: text, a name the context lacks, such a name that starts with
\* `end`, a name the context holds
CopyContents == {PlainText, Expr(W_x), Expr(W_endpoint), Expr(W_name)}

WriterWith(p, content) == CreateFile(NewMemoryWriter, p, 420, content)

Options(onConflict, patterns) ==
    [Context |-> CopyContext, OnConflict |-> onConflict, IgnorePatterns |-> patterns]

FS(entries, readLink) == [entries |-> entries, readLink |-> readLink]

scenario(src, o, w) == [source |-> src, opts |-> o, dest |-> w]

\* a file with each content, followed by a second file, under every conflict
\* mode (one of them out of range), into an empty destination and into one
\* that has the first file
ConflictScenarios ==
    {scenario(FS({sourceFile(W_a, data, 420), sourceFile(W_b, PlainText, 493)}, TRUE),
              Options(mode, <<>>), w) :
        data \in CopyContents, mode \in Overwrite..(Fail + 1),
        w \in {NewMemoryWriter, WriterWith(W_a, OldText)}}

\* a directory with a file in it and a symlink, into destinations that hold
\* a file where the symlink, the inner file or the directory will go
TreeEntries ==
    {sourceDir(W_d, 448), sourceFile(P_da, PlainText, 0), sourceLink(W_l, W_a)}

TreeScenarios ==
    {scenario(FS(TreeEntries, readLink), Options(mode, <<>>), w) :
        readLink \in BOOLEAN, mode \in Overwrite..Fail,
        w \in {NewMemoryWriter, WriterWith(W_l, OldText),
                WriterWith(P_da, OldText), WriterWith(W_d, OldText)}}

\* two templates of one destination file
SuffixScenarios ==
    {scenario(FS({sourceFile(P_aJinja, Expr(W_name), 420),
                  sourceFile(P_aTmpl, PlainText, 420)}, TRUE),
              Options(mode, <<>>), NewMemoryWriter) :
        mode \in Overwrite..Fail}

\* the ignore file: absent, empty, naming a, a comment and a, negating
\* itself, naming the directory
IgnoreFiles ==
    { <<>>,
      <<sourceFile(IgnoreFileName, <<>>, 420)>>,
      <<sourceFile(IgnoreFileName, <<"a", "\n">>, 420)>>,
      <<sourceFile(IgnoreFileName, <<"#", " ", "c", "\n", "a", "\n">>, 420)>>,
      <<sourceFile(IgnoreFileName, <<"!">> \o IgnoreFileName \o <<"\n">>, 420)>>,
      <<sourceFile(IgnoreFileName, <<"d", "\n">>, 420)>> }

\* Options.IgnorePatterns: none, a blank one, naming b, negating the ignore
\* file, naming a and taking it back
IgnorePatternLists ==
    { <<>>,
      <<<<" ">>>>,
      <<W_b>>,
      <<<<"!">> \o IgnoreFileName>>,
      <<W_a, <<"!">> \o W_a>> }

IgnoreEntries ==
    {sourceFile(W_a, PlainText, 420), sourceFile(W_b, PlainText, 420),
     sourceDir(W_d, 493), sourceFile(P_da, PlainText, 420),
     sourceFile(P_dIgnore, PlainText, 420)}

IgnoreScenarios ==
    {scenario(FS(IgnoreEntries \cup Range(f), TRUE), Options(Overwrite, patterns),
              NewMemoryWriter) :
        f \in IgnoreFiles, patterns \in IgnorePatternLists}
    \cup
    {scenario(FS({sourceDir(IgnoreFileName, 493), sourceFile(W_a, PlainText, 420)}, TRUE),
              Options(Overwrite, patterns), NewMemoryWriter) :
        patterns \in {<<>>, <<W_b>>}}

\* templated names: a directory and files whose names render to nothing or
\* to a blank, next to a plain file
ConditionalEntries ==
    {sourceFile(W_b, PlainText, 493),
     sourceDir(Expr(W_e), 493),
     sourceFile(Expr(W_e) \o <<"/">> \o W_a, PlainText, 420),
     sourceFile(Expr(W_s), PlainText, 420),
     sourceLink(Expr(W_e) \o Expr(W_s), W_a)}

\* a name that renders to "..", as a directory with a file in it, as a file,
\* as a symlink, as a template file; a name that renders to "/a"; a name
\* that refers to a variable the context lacks; a name that renders to the
\* name of its neighbour
EscapingTrees ==
    { {sourceFile(W_b, PlainText, 420), sourceDir(Expr(W_up), 448),
       sourceFile(Expr(W_up) \o <<"/">> \o W_a, PlainText, 420)},
      {sourceFile(W_b, PlainText, 420), sourceFile(Expr(W_up), PlainText, 420)},
      {sourceFile(W_b, PlainText, 420), sourceLink(Expr(W_up), W_a)},
      {sourceFile(W_b, PlainText, 420),
       sourceFile(Expr(W_up) \o <<".", "j", "i", "n", "j", "a">>, PlainText, 420)},
      {sourceFile(W_b, PlainText, 420), sourceFile(Expr(W_sl) \o W_a, PlainText, 420)},
      {sourceFile(W_b, PlainText, 420), sourceFile(Expr(W_x), PlainText, 420)},
      {sourceFile(W_n, PlainText, 420), sourceFile(Expr(W_name), OldText, 420)} }

PathScenarios ==
    {scenario(FS(entries, TRUE), Options(mode, <<>>), NewMemoryWriter) :
        entries \in {ConditionalEntries} \cup EscapingTrees,
        mode \in Overwrite..Fail}

CopyScenarios ==
    ConflictScenarios \cup TreeScenarios \cup SuffixScenarios \cup IgnoreScenarios
    \cup PathScenarios

(***************************************************************************)
(* Copy as a state machine                                                 *)
(***************************************************************************)
InitCopy ==
    /\ \E sc \in CopyScenarios :
          /\ source = sc.source
          /\ opts = sc.opts
          /\ dest = sc.dest
          /\ destBefore = sc.dest
    /\ copy = copyReady
    /\ tpl = <<>>
    /\ ctx = Context(EmptyEntries)
    /\ ctxBefore = Context(EmptyEntries)
    /\ blocks = <<>>
    /\ out = <<>>
    /\ result = resultNone
    /\ prevResult = resultNone
    /\ calls = 0
    /\ path = <<>>
    /\ parsed = parsedNone
    /\ RenderIdle

\* Copy up to the walk: the conflict mode and the ignore matcher
StartCopy ==
    /\ copy.pc = "ready"
    /\ LET matcher == buildIgnoreMatcher(source, opts.IgnorePatterns)
       IN  copy' = IF matcher.err # "none"
                   THEN [copy EXCEPT !.pc = "returned", !.err = matcher.err]
                   ELSE [copy EXCEPT !.pc = "walking",
                                     !.conflict = conflictMode(opts.OnConflict),
                                     !.matcher = matcher,
                                     !.queue = WalkOrder(source.entries)]
    /\ UNCHANGED <<source, opts, dest, destBefore, validateVars, renderVars>>

\* the walk function on the next entry; an error ends the walk and Copy
WalkEntry ==
    /\ copy.pc = "walking"
    /\ copy.queue # <<>>
    /\ LET e == Head(copy.queue)
       IN  \E r \in walkFunc(e, dest, opts.Context, copy.conflict, copy.matcher,
                              source.readLink) :
               /\ dest' = r.dest
               /\ copy' = [copy EXCEPT
                      !.ops = @ \o r.ops,
                      !.visited = Append(@, visit(e, r, dest, copy.ops)),
                      !.err = r.err,
                      !.pc = IF r.err # "none" THEN "returned" ELSE "walking",
                      !.queue = IF r.skipDir THEN afterSkipDir(Tail(@), e.path)
                                ELSE Tail(@)]
    /\ UNCHANGED <<source, opts, destBefore, validateVars, renderVars>>

\* the walk is over: Copy returns nil
WalkDone ==
    /\ copy.pc = "walking"
    /\ copy.queue = <<>>
    /\ copy' = [copy EXCEPT !.pc = "returned"]
    /\ UNCHANGED <<source, opts, dest, destBefore, validateVars, renderVars>>

NextCopy == StartCopy \/ WalkEntry \/ WalkDone

SpecCopy == InitCopy /\ [][NextCopy]_vars

(***************************************************************************)
(* MemoryWriter as a state machine: any sequence of calls                  *)
(***************************************************************************)
\* the paths of the calls: plain, nested, with a backslash, empty
WriterPaths == {W_a, W_d, P_da, <<"d", "\\", "a">>, <<>>}

WriterDirModes == {448, 493}

InitWriter ==
    /\ dest = NewMemoryWriter
    /\ source = <<>>
    /\ opts = <<>>
    /\ destBefore = <<>>
    /\ copy = <<>>
    /\ tpl = <<>>
    /\ ctx = Context(EmptyEntries)
    /\ ctxBefore = Context(EmptyEntries)
    /\ blocks = <<>>
    /\ out = <<>>
    /\ result = resultNone
    /\ prevResult = resultNone
    /\ calls = 0
    /\ path = <<>>
    /\ parsed = parsedNone
    /\ RenderIdle

CallMkdirAll ==
    /\ \E p \in WriterPaths, perm \in WriterDirModes : dest' = MkdirAll(dest, p, perm)
    /\ UNCHANGED <<source, opts, destBefore, copy, validateVars, renderVars>>

CallCreateFile ==
    /\ \E p \in WriterPaths : dest' = CreateFile(dest, p, 420, PlainText)
    /\ UNCHANGED <<source, opts, destBefore, copy, validateVars, renderVars>>

CallSymlink ==
    /\ \E p \in WriterPaths : dest' = Symlink(dest, W_a, p)
    /\ UNCHANGED <<source, opts, destBefore, copy, validateVars, renderVars>>

NextWriter == CallMkdirAll \/ CallCreateFile \/ CallSymlink

SpecWriter == InitWriter /\ [][NextWriter]_vars


(***************************************************************************)
(* Properties                                                              *)
(***************************************************************************)
Keys(c) == DOMAIN c.entries
Validated == result.status # "none"
StartsWithEnd(w) == HasPrefix(ToLower(w), <<"e","n","d">>)

\* C1: for {{ a.b }} against a context in which a is a mapping, validate
\* succeeds when the mapping has key b and fails with MissingVariable("a.b")
\* when it has not.
C1_DottedReference ==
    \A a \in DottedBases, b \in DottedFields :
        (/\ Validated
         /\ tpl = Expr(Dotted(a, b))
         /\ a \in Keys(ctx)
         /\ ctx.entries[a].kind = "map")
        => IF b \in Keys(ctx.entries[a])
           THEN result = resultOk
           ELSE result = resultMissing(Dotted(a, b))

\* C2: the loop-bound name item of {% for item in items %}{{ item }}{% endfor %}
\* is never demanded: validate succeeds whenever items resolves, item being no
\* key of the context.
C2_LoopBoundName ==
    (/\ Validated
     /\ tpl = LoopTemplate
     /\ W_items \in Keys(ctx)
     /\ W_item \notin Keys(ctx))
    => result = resultOk

\* C3: parsePath returns one segment per dot-separated component, in order,
\* each with its bracketed subscripts in order; a.b[0]["x"] yields the two
\* segments {a} and {b, [int 0, string "x"]}.
C3_SegmentPerComponent ==
    \A cs \in ComponentSeqs :
        (parsed.called /\ path = PathOf(cs))
        => /\ ~parsed.err
           /\ parsed.segments =
                 [k \in DOMAIN cs |-> pathSegment(cs[k].name, cs[k].sub.subscripts)]

\* C4: two validate calls with the same template and the same unchanged
\* context yield the same result, the same MissingVariable path included.
C4_Deterministic ==
    calls >= 2 => result = prevResult


\* C5 (as claimed): for {{ s[i] }} with an identifier subscript, validate
\* succeeds if and only if both s and i are keys of the context, whatever the
\* length of s and the value of i; with s present and i absent it fails with
\* MissingVariable("i").
C5_Claim ==
    \A sq \in DynBases, ix \in DynIndexes :
        (Validated /\ tpl = Expr(Indexed(sq, ix)))
        => /\ (result = resultOk) <=> (sq \in Keys(ctx) /\ ix \in Keys(ctx))
           /\ (sq \in Keys(ctx) /\ ix \notin Keys(ctx)) => result = resultMissing(ix)

\* C5 (amended): the same, for an s that does not start with "end" and for
\* s and i that are no reserved words.
C5_DynamicSubscript ==
    \A sq \in DynBases, ix \in DynIndexes :
        (/\ Validated
         /\ tpl = Expr(Indexed(sq, ix))
         /\ ~StartsWithEnd(sq)
         /\ sq \notin skipBaseIdentifiers
         /\ ix \notin skipBaseIdentifiers)
        => /\ (result = resultOk) <=> (sq \in Keys(ctx) /\ ix \in Keys(ctx))
           /\ (sq \in Keys(ctx) /\ ix \notin Keys(ctx)) => result = resultMissing(ix)

C5_Witness ==
    /\ tpl = Expr(Indexed(W_list, W_idx))
    /\ ctx = Context(W_list :> IntSlice(0) @@ W_idx :> IntV(5))
    /\ result = resultOk

\* the literals that denote an index of a sequence of length n
IndexLiterals(n) == {Itoa(k) : k \in 0..(n - 1)}

\* the literals of IntLiterals whose value does not fit an int
OverflowLiterals == {MinIntDigits}

\* C6 (as claimed): for {{ s[k] }} with an integer literal k and s a sequence
\* of length n, validate succeeds if and only if 0 <= k < n and fails with
\* MissingVariable otherwise.
C6_Claim ==
    \A sq \in IntBases, k \in IntLiterals :
        (/\ Validated
         /\ tpl = Expr(Indexed(sq, k))
         /\ sq \in Keys(ctx)
         /\ ctx.entries[sq].kind = "slice")
        => IF k \in IndexLiterals(Len(ctx.entries[sq].items))
           THEN result = resultOk
           ELSE result = resultMissing(Indexed(sq, k))

\* C6 (amended): the same, for a literal k that fits an int and an s that
\* neither starts with "end" nor is a reserved word.
C6_LiteralSubscript ==
    \A sq \in IntBases, k \in IntLiterals \ OverflowLiterals :
        (/\ Validated
         /\ tpl = Expr(Indexed(sq, k))
         /\ ~StartsWithEnd(sq)
         /\ sq \notin skipBaseIdentifiers
         /\ sq \in Keys(ctx)
         /\ ctx.entries[sq].kind = "slice")
        => IF k \in IndexLiterals(Len(ctx.entries[sq].items))
           THEN result = resultOk
           ELSE result = resultMissing(Indexed(sq, k))

C6_Witness ==
    /\ tpl = Expr(Indexed(W_list, <<"0">>))
    /\ ctx = Context(W_list :> IntSlice(0))
    /\ result = resultMissing(Indexed(W_list, <<"0">>))

HasUnknown(segment) ==
    \E k \in DOMAIN segment.subscripts : segment.subscripts[k].kind = indexKindUnknown

\* the segments up to and including the first unknown subscript
UpToUnknown(segments) ==
    LET si == CHOOSE n \in DOMAIN segments :
                 /\ HasUnknown(segments[n])
                 /\ \A e \in 1..(n - 1) : ~HasUnknown(segments[e])
        subs == segments[si].subscripts
        ki == CHOOSE n \in DOMAIN subs :
                 /\ subs[n].kind = indexKindUnknown
                 /\ \A e \in 1..(n - 1) : subs[e].kind # indexKindUnknown
    IN  SubSeq(segments, 1, si - 1)
        \o <<pathSegment(segments[si].name, SubSeq(subs, 1, ki))>>

\* every collected reference other than p resolves or is skipped
OthersResolve(p) ==
    \A k \in DOMAIN out :
        out[k].path # p
        => out[k].base \in skipBaseIdentifiers \/ resolvePath(ctx, out[k].path)

\* C7: a reference with an unknown (dynamic) subscript is never reported
\* missing because of a subscript or segment that follows the unknown
\* subscript: when it is reported (every other reference of the template,
\* the subscript's own name included, being present), the part up to the
\* unknown subscript already fails to resolve.
C7_NothingAfterUnknown ==
    LET pp == parsePath(result.path)
    IN  (/\ result.status = "missing"
         /\ OthersResolve(result.path)
         /\ ~pp.err
         /\ \E n \in DOMAIN pp.segments : HasUnknown(pp.segments[n]))
        => ~resolveSegments(ctx, UpToUnknown(pp.segments))

\* C8: parsePath never returns an error, so no reference whose base name is
\* a key of the context is reported missing because its path text is
\* malformed.
C8_ParserTotal ==
    \A k \in DOMAIN out :
        (/\ result.status = "missing"
         /\ out[k].path = result.path
         /\ out[k].base \in Keys(ctx))
        => ~parsePath(result.path).err

\* C9: an identifier whose lowercased text is a reserved word is never
\* reported missing, wherever it occurs in a block.
C9_ReservedCaseInsensitive ==
    \A k \in DOMAIN out :
        (result.status = "missing" /\ out[k].path = result.path)
        => ToLower(out[k].base) \notin skipBaseIdentifiers

ReservedAlone == skipBaseIdentifiers \cup EndTags

HasDelimitedBlock(t, o, c) ==
    \E p, q \in 1..Len(t) :
        /\ p + 1 < q /\ q + 1 <= Len(t)
        /\ t[p] = "{" /\ t[p + 1] = o
        /\ t[q] = c /\ t[q + 1] = "}"

BlockFree(t) == ~HasDelimitedBlock(t, "{", "}") /\ ~HasDelimitedBlock(t, "%", "%")

\* C11: a template holding no expression block and no tag block validates
\* successfully against every context, the empty one included.
C11_BlockFreeSucceeds ==
    (Validated /\ BlockFree(tpl)) => result = resultOk

\* an unclosed `{{ x }` has been validated against the empty context
C11_Witness ==
    /\ Validated /\ BlockFree(tpl)
    /\ \E p \in 1..Len(tpl) : p < Len(tpl) /\ tpl[p] = "{" /\ tpl[p + 1] = "{"
    /\ Keys(ctx) = {}
    /\ result = resultOk


EngineOps == {"Load", "FromString", "Store", "Execute"}

\* C12: within one renderTemplateString call the cache lookup, the compile,
\* the cache store and the execute happen only after ensureVariablesPresent
\* has succeeded; after a failed validation the call does none of them.
C12_ValidationFirst ==
    \A g \in Goroutines :
        LET r == proc[g]
        IN  /\ \A k \in DOMAIN r.trace :
                  r.trace[k] \in EngineOps =>
                      /\ k > 1
                      /\ r.trace[1] = "ensureVariablesPresent"
                      /\ r.validation = resultOk
            /\ r.validation.status = "missing" =>
                  /\ r.trace = <<"ensureVariablesPresent">>
                  /\ r.pc = "returned"
                  /\ r.err = "missing"

\* one call was stopped by the validator, another went on to execute
C12_Witness ==
    \E g, h \in Goroutines :
        /\ proc[g].validation.status = "missing" /\ proc[g].pc = "returned"
        /\ proc[h].validation = resultOk
        /\ proc[h].trace = <<"ensureVariablesPresent", "Load", "FromString", "Store", "Execute">>


\* C13: under every interleaving of concurrent getOrCompileTemplate calls a
\* template text (here: one the engine accepts) is compiled at most once and
\* its cache entry is populated at most once.
C13_CompiledOnce ==
    \A t \in DOMAIN compiles :
        ~fromStringFails(t) => compiles[t] <= 1 /\ stores[t] <= 1


\* the getOrCompileTemplate call of goroutine g has returned a handle
Returned(g) == proc[g].pc \in {"execute", "returned"} /\ proc[g].compiled # 0

\* C14: a cache entry is never removed; a call that starts once the entry is
\* stored and every earlier call for that text has returned (proc[g].stable)
\* returns the stored handle, the same one for all such calls; a text that
\* fails to compile never has an entry.
C14_StableCache ==
    /\ [](\A t \in DOMAIN templateCache : ~fromStringFails(t))
    /\ [](\A g \in Goroutines :
            (proc[g].stable /\ Returned(g)) =>
                /\ proc[g].tpl \in DOMAIN templateCache
                /\ proc[g].compiled = templateCache[proc[g].tpl])
    /\ [][\A t \in DOMAIN templateCache : t \in DOMAIN templateCache']_vars

\* two calls raced and stored twice; a call begun after both had returned
\* has come back with the stored handle
C14_Witness ==
    \E g \in Goroutines :
        /\ proc[g].stable /\ Returned(g)
        /\ stores[proc[g].tpl] = 2
        /\ proc[g].compiled = templateCache[proc[g].tpl]


RECURSIVE Quiet(_)
Quiet(v) ==
    IF v.kind = "map" THEN \A k \in DOMAIN v.entries : Quiet(v.entries[k])
    ELSE IF v.kind = "slice" THEN \A k \in DOMAIN v.items : Quiet(v.items[k])
    ELSE IF v.kind = "ptr" THEN Quiet(v.elem)
    ELSE IF v.kind = "struct"
         THEN /\ \A f \in DOMAIN v.fields : Quiet(v.fields[f].value)
              /\ \A m \in DOMAIN v.methods :
                    v.methods[m].numIn = 0 =>
                        /\ v.methods[m].writes = NoWrites
                        /\ \A k \in DOMAIN v.methods[m].results :
                              Quiet(v.methods[m].results[k])
    ELSE TRUE

ContentNames == {W_x, W_endpoint, W_name}

\* the content is `{{ n }}` for a name n the context of the call lacks
RefersToMissing(data, names) ==
    \E n \in names : data = Expr(n) /\ n \notin Keys(opts.Context)

\* the walk function got as far as rendering the content of the file
ContentReached(v) == v.kind = "file" /\ v.outcome \in {"written", "render file"}

CreatedFor(src) ==
    \E k \in DOMAIN copy.ops : copy.ops[k].op = "CreateFile" /\ copy.ops[k].src = src

C17_SkipKeepsExisting ==
    (opts # <<>> /\ opts.OnConflict = Skip) =>
        \A p \in DOMAIN destBefore.files :
            p \in DOMAIN dest.files /\ dest.files[p] = destBefore.files[p]

\* C18: with OnConflict = Fail, a regular source file whose rendered path is
\* already a file of the destination ends Copy with an error on the spot:
\* it is the last entry walked, no Writer call is made from its detection
\* on, and the file is left as it was.
C18_FailStopsAtConflict ==
    \A k \in DOMAIN copy.visited :
        LET v == copy.visited[k]
        IN  (/\ copy.conflict = Fail
             /\ v.kind = "file"
             /\ v.outcome \in {"conflict", "kept", "written", "render file"}
             /\ v.before # <<>>)
            => /\ copy.err # "none"
               /\ copy.pc = "returned"
               /\ k = Len(copy.visited)
               /\ Len(copy.ops) = v.opsBefore
               /\ v.path \in DOMAIN dest.files
               /\ dest.files[v.path] = v.before[1]

\* the directory was made, then the file in it met an existing one: Copy has
\* returned with the symlink after it unvisited
C18_Witness ==
    /\ copy.conflict = Fail
    /\ copy.pc = "returned" /\ copy.err = "exists"
    /\ copy.ops # <<>>
    /\ copy.queue # <<>>
    /\ copy.visited[Len(copy.visited)].outcome = "conflict"
    /\ copy.visited[Len(copy.visited)].before = <<[content |-> OldText, mode |-> 420]>>

\* C19: no Writer call is ever made for the ignore file at the root of the
\* source, under any ignore configuration.
C19_IgnoreFileNeverWritten ==
    /\ \A k \in DOMAIN copy.ops : copy.ops[k].src # IgnoreFileName
    /\ \A k \in DOMAIN copy.visited :
          copy.visited[k].src = IgnoreFileName =>
              copy.visited[k].outcome \in {"ignored", "ignore file"}

\* Copy is through a source whose ignore file is walked while
\* Options.IgnorePatterns negates it, and has written other files
C19_Witness ==
    /\ copy.pc = "returned" /\ copy.err = "none"
    /\ opts.IgnorePatterns = <<<<"!">> \o IgnoreFileName>>
    /\ \E k \in DOMAIN copy.visited : copy.visited[k].src = IgnoreFileName
    /\ \E k \in DOMAIN copy.ops : copy.ops[k].op = "CreateFile"

\* the patterns of the ignore file at the root of the source
FilePatterns ==
    LET files == {e \in source.entries : e.path = IgnoreFileName /\ e.kind = "file"}
    IN  IF files = {} THEN <<>> ELSE parseIgnoreFile((CHOOSE e \in files : TRUE).data)

\* the patterns in force: the explicit ones when one of them is not blank,
\* the file's otherwise
PatternsInForce ==
    IF nonBlankPatterns(opts.IgnorePatterns) # <<>>
    THEN nonBlankPatterns(opts.IgnorePatterns)
    ELSE FilePatterns

\* C20: Options.IgnorePatterns takes precedence over the ignore file, and
\* only the patterns in force decide which entries (other than the root
\* ignore file itself) are skipped as ignored.
C20_ExplicitPatternsDecide ==
    \A k \in DOMAIN copy.visited :
        copy.visited[k].src # IgnoreFileName =>
            (copy.visited[k].outcome = "ignored"
             <=> MatchesPath(PatternsInForce, copy.visited[k].src))


\* the path renders, and to nothing but white space
RendersBlank(p) ==
    \A r \in renderTemplateString(p, opts.Context) :
        r.err = "none" /\ TrimSpace(r.out) = <<>>

WriterCallsFor(src) == {k \in DOMAIN copy.ops : copy.ops[k].src = src}

\* C21: a walked entry whose path renders to an empty or blank string gets
\* no Writer call and ends the walk with no error; when it is a directory,
\* nothing below it is walked or written.
C21_BlankPathSkipped ==
    \A k \in DOMAIN copy.visited :
        LET v == copy.visited[k]
        IN  (v.outcome \notin {"ignored", "ignore file"} /\ RendersBlank(v.src))
            => /\ WriterCallsFor(v.src) = {}
               /\ k = Len(copy.visited) => copy.err = "none"
               /\ v.kind = "dir" =>
                     /\ \A j \in DOMAIN copy.visited : ~underDir(copy.visited[j].src, v.src)
                     /\ \A j \in DOMAIN copy.ops : ~underDir(copy.ops[j].src, v.src)

\* Copy has returned nil having walked the directory whose name renders to
\* nothing, which has a file in it, and the files named by a blank; only
\* the plain file was written
C21_Witness ==
    /\ copy.pc = "returned" /\ copy.err = "none"
    /\ \E e \in source.entries : underDir(e.path, Expr(W_e))
    /\ \E k \in DOMAIN copy.visited :
          /\ copy.visited[k].src = Expr(W_e)
          /\ copy.visited[k].kind = "dir"
          /\ copy.visited[k].outcome = "path skipped"
    /\ \E k \in DOMAIN copy.visited : copy.visited[k].src = Expr(W_s)
    /\ DOMAIN dest.files = {W_b}
    /\ Len(copy.ops) = 1


\* the permission bits of the source entry at the path src
SourcePerm(src) == (CHOOSE e \in source.entries : e.path = src).perm

LastVisited == copy.visited[Len(copy.visited)]

\* C22: a file Copy has just created carries the permission bits of its
\* source file, or 0644 when those are all zero.
C22_FilePermissionsKept ==
    (copy.visited # <<>> /\ LastVisited.outcome = "written")
    => /\ LastVisited.path \in DOMAIN dest.files
       /\ dest.files[LastVisited.path].mode =
              IF SourcePerm(LastVisited.src) # 0 THEN SourcePerm(LastVisited.src)
              ELSE 420

\* the executable source file b has just been created as an executable file
C22_Witness ==
    /\ copy.visited # <<>>
    /\ LastVisited.outcome = "written"
    /\ LastVisited.src = W_b
    /\ SourcePerm(W_b) = 493
    /\ dest.files[W_b].mode = 493


\* C25: every path Copy hands to MkdirAll, CreateFile or Symlink is a cleaned
\* relative path that is not "..", does not begin with "../" and does not
\* begin with "/".
C25_PathsStayInside ==
    \A k \in DOMAIN copy.ops :
        LET p == copy.ops[k].path
        IN  /\ Clean(p) = p
            /\ p # W_dotdot
            /\ ~HasPrefix(p, <<".", ".", "/">>)
            /\ ~HasPrefix(p, <<"/">>)


\* the walk function got past the ignore rules and the path of a regular file
Copied(v) == v.kind = "file" /\ v.outcome \in {"conflict", "kept", "written", "render file"}

\* C26: whenever a regular file that is neither ignored nor path-skipped has
\* the content `{{ x }}`, x absent from the context (and no word a skip rule
\* covers), Copy returns an error, under every conflict mode and whatever
\* the destination holds.
C26_MissingFoundInEveryMode ==
    \A k \in DOMAIN copy.visited :
        (Copied(copy.visited[k])
         /\ RefersToMissing(copy.visited[k].data,
                            {n \in ContentNames :
                                ~StartsWithEnd(n) /\ n \notin skipBaseIdentifiers}))
        => copy.err # "none"

CreateFileCalls == {k \in DOMAIN copy.ops : copy.ops[k].op = "CreateFile"}

\* C27: within one Copy no destination path is created twice, and Copy into
\* an empty destination reports no conflict under OnConflict = Fail.
C27_NoPathCreatedTwice ==
    /\ \A j, k \in CreateFileCalls : copy.ops[j].path = copy.ops[k].path => j = k
    /\ (destBefore = NewMemoryWriter /\ copy.conflict = Fail)
        => copy.err \notin {"exists", "is a directory"}

\* C28: after a successful Copy every destination directory made from a
\* source directory has that directory's permission bits, 0755 when they are
\* zero.
C28_DirectoryPermissionsKept ==
    (copy.pc = "returned" /\ copy.err = "none")
    => \A k \in DOMAIN copy.visited :
           copy.visited[k].outcome = "directory"
           => /\ copy.visited[k].path \in DOMAIN dest.dirs
              /\ dest.dirs[copy.visited[k].path] =
                     directoryMode(SourcePerm(copy.visited[k].src))


\* C29: in MemoryWriter no path is both a file and a symlink, and the parent
\* directory of every file and symlink, unless it is the root, is in dirs.
C29_WriterConsistent ==
    /\ DOMAIN dest.files \cap DOMAIN dest.symlinks = {}
    /\ \A p \in DOMAIN dest.files \cup DOMAIN dest.symlinks :
          Dir(p) # W_dot => Dir(p) \in DOMAIN dest.dirs

\* d was made with mode 0700, d/a is a symlink in it and a is a file
C29_Witness ==
    /\ P_da \in DOMAIN dest.symlinks
    /\ W_a \in DOMAIN dest.files
    /\ W_d \in DOMAIN dest.dirs
    /\ dest.dirs[W_d] = 448


\* C23: a chain that is followed by "(" yields no candidate: for
\* `{{ chain(x) }}` none of the candidates starts from the base of the
\* chain, and validate never reports the chain missing.
C23_CallTargetDiscarded ==
    \A ch \in CallChains, gap \in CallGaps :
        (Validated /\ tpl = CallTemplate(ch.text, gap))
        => /\ \A b \in DOMAIN blocks : \A k \in DOMAIN blocks[b] :
                  blocks[b][k].base # ch.base
           /\ \A k \in DOMAIN out : out[k].base # ch.base
           /\ result.status = "missing" => result.path \in {W_x, W_key}

\* `{{ a.f(x) }}` validated against a context that has x and lacks a: the
\* argument was the only candidate
C23_Witness ==
    /\ Validated
    /\ tpl = CallTemplate(Dotted(W_a, W_f), <<>>)
    /\ W_x \in Keys(ctx) /\ W_a \notin Keys(ctx)
    /\ out = <<variableCandidate(W_x, W_x)>>
    /\ result = resultOk

\* C24: a word that starts with "end", in any letter case, yields no
\* candidate as the first token of a block, and yields the candidate of its
\* own name at a later token position.
C24_EndPrefixFirstTokenOnly ==
    \A w \in EndWords :
        Validated =>
            /\ tpl \in {Expr(w), Tag(w)} => blocks = << <<>> >>
            /\ tpl \in {LaterTemplate(w), SumTemplate(w)} =>
                   \E k \in DOMAIN blocks[1] : blocks[1][k] = variableCandidate(w, w)

\* `{{ x + ENDx }}` against the empty context: both names are candidates
\* and one of them is reported missing
C24_Witness ==
    /\ Validated
    /\ tpl = SumTemplate(W_ENDx)
    /\ blocks = << <<variableCandidate(W_x, W_x), variableCandidate(W_ENDx, W_ENDx)>> >>
    /\ ctx = Context(EmptyEntries)
    /\ result.status = "missing"

====
